---- MODULE Spec2Model ----
(***************************************************************************)
(* Vent hub device-management runtime: the device registry (SQLite table   *)
(* keyed by eui64), the CoAP client, discovery / polling and the group     *)
(* fan-out.  Strings keep the values the Python code compares ("" is the   *)
(* falsy empty string of an unknown address or an unassigned label).       *)
(***************************************************************************)
EXTENDS Integers, Sequences, FiniteSets, TLC

VARIABLES
    reg,        \* devices table: function from the stored eui64 keys to rows
    now,        \* the clock datetime.now() reads
    last,       \* the registry write made by the latest step (history)
    sent,       \* the CoAP requests sent by the latest step (history)
    pc,         \* "idle", the operation in progress, or "returned"
    call,       \* the operation in progress or just returned, with its arguments
    devices,    \* group set: the in-memory device list the selector resolved to
    task,       \* group set: the state of each per-device _set_one task
    clamped,    \* group set: the local variable angle of _set_devices once clamped
    queue,      \* discover / poll_all: what the for loop has still to visit
    tried,      \* discover / poll_all: addresses probed by this run (history)
    okIds,      \* discover / poll_all: ids whose probe succeeded in this run (history)
    before,     \* the stored ids when the operation started (history)
    result,     \* the list the operation returns
    count,      \* poll_all: the local variable count, returned at the end
    newCount,   \* per id: discover runs that returned it as new since it was absent
    storageErrors, \* ids whose registry write raised in the operation (history)
    rules,      \* Scheduler._rules
    running,    \* Scheduler._running
    loop,       \* where the task running Scheduler.run() stands
    current,    \* check_rules: the argument current_time
    idx,        \* check_rules: the rule the for loop visits next
    executed,   \* check_rules: the local variable executed
    gmCalls,    \* the GroupManager calls made by this check_rules, with how each ended
    stopAsked,  \* stop() was called since the run task was created (history)
    writers,    \* coroutines inside DeviceRegistry.upsert, each with its locals
    reg0,       \* the devices table before the concurrent upserts began (history)
    gone,       \* ids whose labelled record a noted delete has removed (history)
    vents,      \* per device: the state the vent itself holds
    iterated,   \* check_rules: the list object its for loop iterates over
    removed,    \* rule names remove_rule returned true for, not added since (history)
    late,       \* rules added while the check_rules in progress was suspended (history)
    wall,       \* run loop: the wall clock, in seconds after 08:00:00
    fired,      \* run loop: the rule executions so far, each with its minute (history)
    scans,      \* the discover() tasks running side by side, each with its locals
    assigned    \* per id: the labels update_assignment wrote last (history)

hub == <<pc, call, devices, task, clamped, queue, tried, okIds, before, result,
         count>>
sched == <<rules, running, loop, current, idx, executed, gmCalls, stopAsked>>
conc == <<writers, reg0>>
fine == <<iterated, removed, late, wall, fired, scans, assigned>>
vars == <<reg, now, last, sent, newCount, hub, storageErrors, sched, conc, gone,
          vents, fine>>

(***************************************************************************)
(* Bounds and value domains                                                *)
(***************************************************************************)
MaxClock == 2
MaxNewCount == 2
MaxRules == 2
MaxWall == 200

Ids == {"d1", "d2", "d3"}

NoTime == -1

AddrOf(id) == CASE id = "d1" -> "fd00::1"
                [] id = "d2" -> "fd00::2"
                [] OTHER     -> "fd00::3"

\* The (firmware_version, rssi, power_source, poll_period_ms) a device reports.
Profiles ==
    { [firmware_version |-> "0.1.0", rssi |-> -55, power_source |-> "usb",
       poll_period_ms |-> 0],
      [firmware_version |-> "0.1.0", rssi |-> -70, power_source |-> "battery",
       poll_period_ms |-> 5000] }

\* models.VentDevice: the dataclass, last_seen defaulting to None.
VentDevice(eui64, ipv6_address, room, floor, name, angle, state, profile) ==
    [eui64 |-> eui64, ipv6_address |-> ipv6_address, room |-> room,
     floor |-> floor, name |-> name, angle |-> angle, state |-> state,
     firmware_version |-> profile.firmware_version, last_seen |-> NoTime,
     rssi |-> profile.rssi, power_source |-> profile.power_source,
     poll_period_ms |-> profile.poll_period_ms]

(***************************************************************************)
(* DeviceRegistry                                                          *)
(***************************************************************************)
\* A plausible slip: ON CONFLICT overwrites the labels like every other column.
upsert_overwrite_labels(r, device, t) ==
    [x \in DOMAIN r \cup {device.eui64} |->
        IF x = device.eui64 THEN [device EXCEPT !.last_seen = t] ELSE r[x]]

\* A plausible slip: the statement is given the device's own last_seen, and the
\* clock only when the device has none.
upsert_carried_last_seen(r, device, t) ==
    IF device.last_seen = NoTime
    THEN [x \in DOMAIN r \cup {device.eui64} |->
            IF x = device.eui64 THEN [device EXCEPT !.last_seen = t]
            ELSE r[x]]
    ELSE [x \in DOMAIN r \cup {device.eui64} |->
            IF x = device.eui64 THEN device ELSE r[x]]

\* INSERT ... ON CONFLICT(eui64) DO UPDATE SET ...
upsert(r, device, t) ==
    IF device.eui64 \in DOMAIN r
    THEN [r EXCEPT ![device.eui64] =
            [eui64            |-> @.eui64,
             ipv6_address     |-> device.ipv6_address,
             room             |-> IF device.room # "" THEN device.room ELSE @.room,
             floor            |-> IF device.floor # "" THEN device.floor ELSE @.floor,
             name             |-> IF device.name # "" THEN device.name ELSE @.name,
             angle            |-> device.angle,
             state            |-> device.state,
             firmware_version |-> device.firmware_version,
             last_seen        |-> t,
             rssi             |-> device.rssi,
             power_source     |-> device.power_source,
             poll_period_ms   |-> device.poll_period_ms]]
    ELSE [x \in DOMAIN r \cup {device.eui64} |->
            IF x = device.eui64 THEN [device EXCEPT !.last_seen = t] ELSE r[x]]

\* A plausible slip: the WHERE clause is missing and fetchone takes the first row.
get_without_where(r, eui64) ==
    IF DOMAIN r = {} THEN {} ELSE {r[CHOOSE x \in DOMAIN r : TRUE]}

\* SELECT * FROM devices WHERE eui64 = ?  (the set is empty for "not found")
get(r, eui64) == {r[x] : x \in DOMAIN r \cap {eui64}}

\* A plausible slip: the count of rows in the table, not of rows the statement hit.
affected_total(r, eui64) == Cardinality(DOMAIN r)

\* cursor.rowcount of a statement with WHERE eui64 = ?
affected(r, eui64) == Cardinality(DOMAIN r \cap {eui64})

\* A plausible slip: the WHERE clause is missing.
update_position_without_where(r, eui64, a, state, t) ==
    [x \in DOMAIN r |-> [r[x] EXCEPT !.angle = a, !.state = state, !.last_seen = t]]

\* UPDATE devices SET angle = ?, state = ?, last_seen = ? WHERE eui64 = ?
update_position(r, eui64, a, state, t) ==
    [x \in DOMAIN r |->
        IF x = eui64 THEN [r[x] EXCEPT !.angle = a, !.state = state, !.last_seen = t]
        ELSE r[x]]

\* A plausible slip: the two parameters bound in the other order.
update_assignment_swapped(r, eui64, room, floor) ==
    [x \in DOMAIN r |->
        IF x = eui64 THEN [r[x] EXCEPT !.room = floor, !.floor = room] ELSE r[x]]

\* UPDATE devices SET room = ?, floor = ? WHERE eui64 = ?
update_assignment(r, eui64, room, floor) ==
    [x \in DOMAIN r |->
        IF x = eui64 THEN [r[x] EXCEPT !.room = room, !.floor = floor] ELSE r[x]]

\* A plausible slip: the WHERE clause is missing.
delete_without_where(r, eui64) == [x \in {} |-> r[x]]

\* DELETE FROM devices WHERE eui64 = ?
delete(r, eui64) == [x \in DOMAIN r \ {eui64} |-> r[x]]

\* The byte order SQLite's default collation gives the label strings in use.
LabelOrder == <<"", "1", "2", "bedroom", "bedroom-east", "bedroom-west", "d1",
                "d2", "d3", "kitchen", "living-room", "living-room-main">>

Rank(s) == CHOOSE i \in 1..Len(LabelOrder) : LabelOrder[i] = s

\* ORDER BY floor, room, name (rows equal in all three: by key, one legal order).
RowBefore(a, b) ==
    LET ka == <<Rank(a.floor), Rank(a.room), Rank(a.name), Rank(a.eui64)>>
        kb == <<Rank(b.floor), Rank(b.room), Rank(b.name), Rank(b.eui64)>>
        RECURSIVE Less(_)
        Less(i) == IF i > 4 THEN FALSE
                   ELSE IF ka[i] # kb[i] THEN ka[i] < kb[i] ELSE Less(i + 1)
    IN Less(1)

RECURSIVE Ordered(_)
Ordered(rows) ==
    IF rows = {} THEN << >>
    ELSE LET first == CHOOSE a \in rows : \A b \in rows \ {a} : RowBefore(a, b)
         IN <<first>> \o Ordered(rows \ {first})

\* SELECT * FROM devices ORDER BY floor, room, name
list_all(r) == Ordered({r[x] : x \in DOMAIN r})

\* SELECT * FROM devices WHERE room = ?   (no ORDER BY: one legal order)
list_by_room(r, room) == Ordered({r[x] : x \in {y \in DOMAIN r : r[y].room = room}})

\* SELECT * FROM devices WHERE floor = ?  (no ORDER BY: one legal order)
list_by_floor(r, floor) ==
    Ordered({r[x] : x \in {y \in DOMAIN r : r[y].floor = floor}})

\* ORDER BY on one text column.
RECURSIVE SortedLabels(_)
SortedLabels(S) ==
    IF S = {} THEN << >>
    ELSE LET first == CHOOSE a \in S : \A b \in S : Rank(a) <= Rank(b)
         IN <<first>> \o SortedLabels(S \ {first})

\* A plausible slip: the filter room != '' is missing.
get_rooms_unfiltered(r) == SortedLabels({r[x].room : x \in DOMAIN r})

\* SELECT DISTINCT room FROM devices WHERE room != '' ORDER BY room
get_rooms(r) == SortedLabels({r[x].room : x \in DOMAIN r} \ {""})

\* SELECT DISTINCT floor FROM devices WHERE floor != '' ORDER BY floor
get_floors(r) == SortedLabels({r[x].floor : x \in DOMAIN r} \ {""})

(***************************************************************************)
(* The state every operation leaves behind when no operation is in flight   *)
(***************************************************************************)
NoCall == [op |-> "none"]

HubIdle ==
    /\ pc = "idle"
    /\ call = NoCall
    /\ devices = << >>
    /\ task = << >>
    /\ clamped = 0
    /\ queue = << >>
    /\ tried = {}
    /\ okIds = {}
    /\ before = {}
    /\ result = << >>
    /\ count = 0

\* The device answering at an address, and the labels its config resource holds.
DeviceAt(address) == CHOOSE id \in Ids : AddrOf(id) = address
RoomOf(id) == IF id = "d3" THEN "living-room" ELSE "bedroom"
FloorOf(id) == IF id = "d3" THEN "1" ELSE "2"
NameOf(id) == CASE id = "d1" -> "bedroom-east" [] id = "d2" -> "bedroom-west"
                [] OTHER -> "living-room-main"
ProfileOf(id) ==
    IF id = "d3" THEN CHOOSE q \in Profiles : q.power_source = "battery"
    ELSE CHOOSE q \in Profiles : q.power_source = "usb"

\* VirtualVent.__init__ and VentSimulator.add_vent: a vent starts closed at 90
\* with the labels it was installed with.
Installed ==
    [id \in Ids |-> [angle |-> 90, state |-> "closed", room |-> RoomOf(id),
                     floor |-> FloorOf(id), name |-> NameOf(id)]]

\* A Scheduler just constructed: no rule, not running, run() not called.
SchedIdle ==
    /\ rules = << >>
    /\ running = FALSE
    /\ loop = "none"
    /\ current = [hour |-> 0, minute |-> 0, second |-> 0]
    /\ idx = 0
    /\ executed = 0
    /\ gmCalls = << >>
    /\ stopAsked = FALSE

\* No coroutine is inside a registry call.
ConcIdle ==
    /\ writers = << >>
    /\ reg0 = << >>

\* Nothing is in progress in the finer-grained operations, nothing is noted.
FineIdle ==
    /\ iterated = [items |-> << >>, aliased |-> FALSE]
    /\ removed = {}
    /\ late = {}
    /\ wall = 0
    /\ fired = [ticks |-> << >>, runs |-> << >>]
    /\ scans = << >>
    /\ assigned = << >>

Init ==
    /\ reg = << >>
    /\ now = 0
    /\ last = NoCall
    /\ sent = << >>
    /\ newCount = [id \in Ids |-> 0]
    /\ HubIdle
    /\ storageErrors = {}
    /\ SchedIdle
    /\ ConcIdle
    /\ gone = {}
    /\ vents = Installed
    /\ FineIdle

(***************************************************************************)
(* Registry-level specification: callers of the registry API               *)
(***************************************************************************)
\* Records an API consumer may hand to upsert.
SampleDevices ==
    { VentDevice("d1", a, rm, fl, nm, p[1], p[2], p[3]) :
        a \in {"", AddrOf("d1")}, rm \in {"", "bedroom", "kitchen"},
        fl \in {"", "1", "2"}, nm \in {"", "bedroom-east", "bedroom-west"},
        p \in { <<90, "closed", CHOOSE q \in Profiles : q.power_source = "usb">>,
                <<120, "partial",
                  CHOOSE q \in Profiles : q.power_source = "battery">> } }
    \cup
    { VentDevice("d2", AddrOf("d2"), rm, "2", "", 180, "open",
                 CHOOSE pr \in Profiles : pr.power_source = "usb") :
        rm \in {"", "bedroom"} }

\* await registry.upsert(device), called directly by an API consumer.
Upsert(d) ==
    /\ pc = "idle"
    /\ reg' = upsert(reg, d, now)
    /\ last' = [op |-> "upsert", device |-> d]
    /\ UNCHANGED <<now, sent, newCount, hub>>
    /\ UNCHANGED <<storageErrors, sched, conc, gone, vents, fine>>

\* datetime.now(timezone.utc) moves on.
Tick ==
    /\ now < MaxClock
    /\ now' = now + 1
    /\ last' = [op |-> "tick"]
    /\ UNCHANGED <<reg, sent, newCount, hub>>
    /\ UNCHANGED <<storageErrors, sched, conc, gone, vents, fine>>

RegNext ==
    \/ \E d \in SampleDevices : Upsert(d)
    \/ Tick

SpecRegistry == Init /\ [][RegNext]_vars

(***************************************************************************)
(* CoapClient                                                              *)
(***************************************************************************)
Min2(a, b) == IF a < b THEN a ELSE b
Max2(a, b) == IF a > b THEN a ELSE b

\* A plausible slip: the payload carries the caller's angle as it came.
set_target_unclamped(address, a) ==
    [code |-> "PUT", address |-> address, path |-> "vent/target", payload |-> a]

\* set_target: the one request it hands to _put (CBOR {0: angle}).
set_target(address, a) ==
    [code |-> "PUT", address |-> address, path |-> "vent/target",
     payload |-> Max2(90, Min2(180, a))]

\* Angles a caller may ask for: around both ends of the range and far outside.
ClientAngles == (80..190) \cup {-50, 999}

\* await coap.set_target(address, angle): one exchange, acknowledged or failed.
SetTarget(address, a, ok) ==
    /\ pc = "idle"
    /\ call' = [op |-> "set_target", address |-> address, angle |-> a]
    /\ sent' = <<set_target(address, a)>>
    /\ result' = IF ok THEN <<"ack">> ELSE <<"CoapError">>
    /\ last' = NoCall
    /\ UNCHANGED <<reg, now, newCount, pc, devices, task, clamped, queue, tried,
                   okIds, before, count>>
    /\ UNCHANGED <<storageErrors, sched, conc, gone, vents, fine>>

ClientNext ==
    \E address \in {AddrOf(id) : id \in Ids}, a \in ClientAngles, ok \in BOOLEAN :
        SetTarget(address, a, ok)

SpecClient == Init /\ [][ClientNext]_vars

(***************************************************************************)
(* GroupManager                                                            *)
(***************************************************************************)
\* A plausible slip: the fan-out passes the requested angle on unclamped.
set_devices_angle_unclamped(a) == a

\* _set_devices: angle = max(90, min(180, angle))
set_devices_angle(a) == Max2(90, Min2(180, a))

\* What a group set may be asked for.
AngleInputs == {-50, 135, 999}
GroupCalls ==
    {[op |-> "set_all_angle", target |-> ""]}
    \cup {[op |-> "set_room_angle", target |-> r] : r \in {"bedroom", "kitchen"}}
    \cup {[op |-> "set_floor_angle", target |-> f] : f \in {"1", "2"}}

\* A plausible slip: the selector is ignored and every device is resolved.
resolve_all(r, c) == list_all(r)

\* set_room_angle / set_floor_angle / set_all_angle: the registry query each makes.
resolve(r, c) ==
    CASE c.op = "set_room_angle"  -> list_by_room(r, c.target)
      [] c.op = "set_floor_angle" -> list_by_floor(r, c.target)
      [] OTHER                    -> list_all(r)

\* A _set_one task that has not run yet; put and write log what it did since.
NewTask == [st |-> "pending", put |-> << >>, ack |-> "none", write |-> << >>]

\* set_*_angle up to asyncio.gather: resolve, return [] for no devices, else
\* clamp once and create one _set_one task per device.
GroupStart(c, a) ==
    /\ pc = "idle"
    /\ LET devs == resolve(reg, c)
       IN /\ devices' = devs
          /\ IF devs = << >>
             THEN /\ pc' = "returned"
                  /\ clamped' = a
                  /\ task' = << >>
             ELSE /\ pc' = "group"
                  /\ clamped' = set_devices_angle(a)
                  /\ task' = [i \in 1..Len(devs) |-> NewTask]
    /\ call' = [op |-> c.op, target |-> c.target, angle |-> a]
    /\ before' = DOMAIN reg
    /\ result' = << >>
    /\ sent' = << >>
    /\ last' = NoCall
    /\ UNCHANGED <<reg, now, newCount, queue, tried, okIds, count>>
    /\ UNCHANGED <<storageErrors, sched, conc, gone, vents, fine>>

\* A plausible slip: a device without an address is commanded like the others.
set_one_never_skips(device) == FALSE

\* _set_one: if not device.ipv6_address: return None
set_one_skips(device) == device.ipv6_address = ""

\* _set_one up to the end of await self._coap.set_target(...): the device is
\* skipped, or the exchange is made and is acknowledged or raises.
SetOneExchange(i, ok) ==
    /\ pc = "group"
    /\ i \in DOMAIN task
    /\ task[i].st = "pending"
    /\ IF set_one_skips(devices[i])
       THEN /\ ok
            /\ task' = [task EXCEPT ![i].st = "skipped"]
            /\ sent' = << >>
       ELSE LET request == set_target(devices[i].ipv6_address, clamped)
            IN /\ task' = [task EXCEPT ![i].st = IF ok THEN "acked" ELSE "failed",
                                       ![i].put = Append(@, request),
                                       ![i].ack = IF ok THEN "ack" ELSE "error"]
               /\ sent' = <<request>>
    /\ last' = NoCall
    /\ UNCHANGED <<reg, now, newCount, pc, call, devices, clamped, queue, tried,
                   okIds, before, result, count>>
    /\ UNCHANGED <<storageErrors, sched, conc, gone, fine>>

\* The exchange as the hub sees it: what the peer does with the request is
\* not looked at.
SetOneSend(i, ok) ==
    /\ SetOneExchange(i, ok)
    /\ UNCHANGED vents

\* A plausible slip: the registry is written in a finally clause, failed or not.
set_one_writes_anyway(t) == t.st \in {"acked", "failed"}

\* _set_one: update_position is the statement after the awaited set_target in
\* the try block, reached only when set_target did not raise.
set_one_writes(t) == t.st = "acked"

\* _set_one after the acknowledgement: update_position, device.angle = angle,
\* return device.
SetOneWrite(i) ==
    /\ pc = "group"
    /\ i \in DOMAIN task
    /\ set_one_writes(task[i])
    /\ LET written == [op |-> "update_position", eui64 |-> devices[i].eui64,
                       angle |-> clamped, state |-> "moving"]
       IN /\ reg' = update_position(reg, devices[i].eui64, clamped, "moving", now)
          /\ last' = written
          /\ task' = [task EXCEPT ![i].st = "done", ![i].write = Append(@, written)]
    /\ devices' = [devices EXCEPT ![i].angle = clamped]
    /\ sent' = << >>
    /\ UNCHANGED <<now, newCount, pc, call, clamped, queue, tried, okIds, before,
                   result, count>>
    /\ UNCHANGED <<storageErrors, sched, conc, gone, vents, fine>>

\* A plausible slip: the first failed task ends the collection of results.
updated_until_failure(devs, tasks) ==
    LET bad  == {i \in DOMAIN tasks : tasks[i].st = "failed"}
        stop == IF bad = {} THEN Len(devs) + 1
                ELSE CHOOSE i \in bad : \A j \in bad : i <= j
        keep == {i \in DOMAIN devs : i < stop /\ tasks[i].st = "done"}
        RECURSIVE Pick(_)
        Pick(i) == IF i > Len(devs) THEN << >>
                   ELSE (IF i \in keep THEN <<devs[i]>> ELSE << >>) \o Pick(i + 1)
    IN Pick(1)

\* _set_devices after gather: zip(devices, results), keeping every result that is
\* neither an exception nor None.
updated(devs, tasks) ==
    LET RECURSIVE Pick(_)
        Pick(i) == IF i > Len(devs) THEN << >>
                   ELSE (IF tasks[i].st = "done" THEN <<devs[i]>> ELSE << >>)
                        \o Pick(i + 1)
    IN Pick(1)

\* A plausible slip: gather without return_exceptions re-raises a task's exception.
gather_reraises(tasks) == \E i \in DOMAIN tasks : tasks[i].st = "failed"

\* asyncio.gather(*tasks, return_exceptions=True): exceptions come back as results.
gather_raises(tasks) == FALSE

Finished(t) == t.st \in {"done", "failed", "skipped"}

\* A plausible slip: gather without return_exceptions hands the first exception
\* to the caller while the other tasks are still running.
gather_first_exception(tasks) ==
    \/ \A i \in DOMAIN tasks : Finished(tasks[i])
    \/ \E i \in DOMAIN tasks : tasks[i].st = "failed"

\* await asyncio.gather(*tasks, return_exceptions=True) resumes its caller when
\* every task has returned or raised.
gather_complete(tasks) == \A i \in DOMAIN tasks : Finished(tasks[i])

\* await asyncio.gather(...) has every task's result; the updated list is built
\* and returned.
GroupReturn ==
    /\ pc = "group"
    /\ gather_complete(task)
    /\ IF gather_raises(task)
       THEN /\ pc' = "raised"
            /\ result' = << >>
       ELSE /\ pc' = "returned"
            /\ result' = updated(devices, task)
    /\ sent' = << >>
    /\ last' = NoCall
    /\ UNCHANGED <<reg, now, newCount, call, devices, task, clamped, queue, tried,
                   okIds, before, count>>
    /\ UNCHANGED <<storageErrors, sched, conc, gone, vents, fine>>

\* The caller has the returned value; the next operation may start.
Done ==
    /\ pc \in {"returned", "raised"}
    /\ pc' = "idle"
    /\ call' = NoCall
    /\ devices' = << >>
    /\ task' = << >>
    /\ clamped' = 0
    /\ queue' = << >>
    /\ tried' = {}
    /\ okIds' = {}
    /\ before' = {}
    /\ result' = << >>
    /\ count' = 0
    /\ sent' = << >>
    /\ last' = NoCall
    /\ storageErrors' = {}
    /\ writers' = << >>
    /\ reg0' = << >>
    /\ UNCHANGED <<reg, now, newCount, sched, gone, vents, fine>>

(***************************************************************************)
(* The devices on the mesh                                                 *)
(***************************************************************************)
\* What a device may report as its position: (angle, state code).
Positions == {<<90, 1>>, <<180, 0>>}

\* How a probe may end: well, or with the named sub-call failing.
ProbeCalls == <<"device/identity", "vent/position", "device/config", "device/health">>
ProbeOutcomes == {"ok"} \cup {ProbeCalls[i] : i \in 1..Len(ProbeCalls)}

\* probe_device: the GETs it sends, in order, up to the one that fails.
probe_requests(address, outcome) ==
    LET n == IF outcome = "ok" THEN Len(ProbeCalls)
             ELSE CHOOSE i \in 1..Len(ProbeCalls) : ProbeCalls[i] = outcome
    IN [i \in 1..n |-> [code |-> "GET", address |-> address, path |-> ProbeCalls[i]]]

\* probe_device: state_map.get(position[1], VentState.CLOSED)
state_map(code) ==
    CASE code = 0 -> "open"
      [] code = 1 -> "closed"
      [] code = 2 -> "partial"
      [] code = 3 -> "moving"
      [] OTHER    -> "closed"

\* get_health: "usb" if data[2] == 0 else "battery"
power_source(code) == IF code = 0 THEN "usb" ELSE "battery"

\* The reply to a sub-call: a decoded payload, a failed exchange (CoapError), or
\* a payload the indexing of the getters cannot read (KeyError, TypeError).
Reply(data) == [status |-> "ok", data |-> data]
NoReply(status) == [status |-> status]

\* A plausible slip: the record is assembled from what arrived, with the
\* dataclass defaults for a config or health that did not.
probe_best_effort(address, replies) ==
    IF replies[1].status = "ok" /\ replies[2].status = "ok"
    THEN LET identity == replies[1].data
             position == replies[2].data
             config   == IF replies[3].status = "ok" THEN replies[3].data
                         ELSE [room |-> "", floor |-> "", name |-> ""]
             health   == IF replies[4].status = "ok" THEN replies[4].data
                         ELSE [rssi |-> 0, poll_period_ms |-> 0, power |-> 0]
         IN {VentDevice(identity.eui64, address, config.room, config.floor,
                        config.name, position[1], state_map(position[2]),
                        [firmware_version |-> identity.firmware_version,
                         rssi |-> health.rssi,
                         power_source |-> power_source(health.power),
                         poll_period_ms |-> health.poll_period_ms])}
    ELSE {}

\* probe_device over the replies of its four sub-calls, in the order of
\* ProbeCalls: the VentDevice it assembles, or None ({}) when any of them raised
\* (except Exception around the whole body).
probe(address, replies) ==
    IF \A k \in DOMAIN replies : replies[k].status = "ok"
    THEN LET identity == replies[1].data
             position == replies[2].data
             config   == replies[3].data
             health   == replies[4].data
         IN {VentDevice(identity.eui64, address, config.room, config.floor,
                        config.name, position[1], state_map(position[2]),
                        [firmware_version |-> identity.firmware_version,
                         rssi |-> health.rssi,
                         power_source |-> power_source(health.power),
                         poll_period_ms |-> health.poll_period_ms])}
    ELSE {}

\* What the device at an address answers to the four GETs when the sub-call
\* named by outcome fails and its position is pos.
MeshReplies(address, outcome, pos) ==
    LET id == DeviceAt(address)
        payload == [k \in 1..Len(ProbeCalls) |->
            CASE k = 1 -> Reply([eui64 |-> id,
                                 firmware_version |-> ProfileOf(id).firmware_version])
              [] k = 2 -> Reply(pos)
              [] k = 3 -> Reply([room |-> RoomOf(id), floor |-> FloorOf(id),
                                 name |-> NameOf(id)])
              [] OTHER -> Reply([rssi |-> ProfileOf(id).rssi,
                                 poll_period_ms |-> ProfileOf(id).poll_period_ms,
                                 power |-> IF ProfileOf(id).power_source = "usb"
                                           THEN 0 ELSE 1])]
    IN [k \in 1..Len(ProbeCalls) |->
          IF ProbeCalls[k] = outcome THEN NoReply("CoapError") ELSE payload[k]]

\* probe_device against the mesh.
probe_device(address, outcome, pos) == probe(address, MeshReplies(address, outcome, pos))

\* The ways one probe can go (the reported position matters only to a success).
ProbeRuns ==
    {<<"ok", pos>> : pos \in Positions}
    \cup {<<o, <<90, 1>> >> : o \in ProbeOutcomes \ {"ok"}}

(***************************************************************************)
(* probe_device on its own, against any peer                                *)
(***************************************************************************)
\* The ways a sub-call can fail.
Failures == {NoReply("CoapError"), NoReply("malformed")}

\* Positions a peer may report: closed, open, partial, and a state code the
\* client does not know.
WirePositions == Positions \cup {<<135, 2>>, <<135, 7>>}

IdentityReplies ==
    {Reply([eui64 |-> id, firmware_version |-> "0.1.0"]) : id \in Ids} \cup Failures
PositionReplies == {Reply(p) : p \in WirePositions} \cup Failures
ConfigReplies ==
    {Reply([room |-> "bedroom", floor |-> "2", name |-> "bedroom-east"]),
     Reply([room |-> "", floor |-> "", name |-> ""])} \cup Failures
HealthReplies ==
    {Reply([rssi |-> -55, poll_period_ms |-> 0, power |-> 0]),
     Reply([rssi |-> -70, poll_period_ms |-> 5000, power |-> 1])} \cup Failures

\* The sub-call whose failure ends the probe: the first that fails, or "ok".
first_failure(replies) ==
    LET bad == {k \in DOMAIN replies : replies[k].status # "ok"}
    IN IF bad = {} THEN "ok"
       ELSE ProbeCalls[CHOOSE k \in bad : \A j \in bad : k <= j]

\* probe_device: except Exception as e: logger.debug(...); return None
probe_catches == TRUE

\* await coap.probe_device(address)
Probe(address, replies) ==
    /\ pc = "idle"
    /\ call' = [op |-> "probe_device", address |-> address, replies |-> replies]
    /\ sent' = probe_requests(address, first_failure(replies))
    /\ LET found == probe(address, replies)
       IN IF found = {}
          THEN /\ result' = << >>
               /\ pc' = IF probe_catches THEN "returned" ELSE "raised"
          ELSE /\ result' = <<CHOOSE d \in found : TRUE>>
               /\ pc' = "returned"
    /\ last' = NoCall
    /\ UNCHANGED <<reg, now, newCount, devices, task, clamped, queue, tried, okIds,
                   before, count, storageErrors, sched, conc, gone, vents, fine>>

ProbeNext ==
    \/ \E address \in {AddrOf(id) : id \in Ids}, identity \in IdentityReplies,
          position \in PositionReplies, config \in ConfigReplies,
          health \in HealthReplies :
            Probe(address, <<identity, position, config, health>>)
    \/ Done

SpecProbe == Init /\ [][ProbeNext]_vars

(***************************************************************************)
(* DeviceDiscovery                                                         *)
(***************************************************************************)
\* _get_thread_addresses: the child-table addresses in table order, or [] on
\* any failure of ot-ctl.
AllAddresses == <<AddrOf("d1"), AddrOf("d2"), AddrOf("d3")>>
AddressLists ==
    {SelectSeq(AllAddresses, LAMBDA x : x \in S) :
        S \in SUBSET {AllAddresses[i] : i \in 1..Len(AllAddresses)}}

\* A plausible slip: the lookup is made after the upsert.
discover_existing_after(rBefore, rAfter, eui64) == get(rAfter, eui64)

\* discover: existing = await self._registry.get(device.eui64), before upsert.
discover_existing(rBefore, rAfter, eui64) == get(rBefore, eui64)

Bump(n) == Min2(n + 1, MaxNewCount)

\* discover up to the for loop: no addresses returns [] at once.
DiscoverStart(addresses) ==
    /\ pc = "idle"
    /\ call' = [op |-> "discover", addresses |-> addresses]
    /\ pc' = IF addresses = << >> THEN "returned" ELSE "discover"
    /\ queue' = addresses
    /\ before' = DOMAIN reg
    /\ result' = << >>
    /\ tried' = {}
    /\ okIds' = {}
    /\ sent' = << >>
    /\ last' = NoCall
    /\ UNCHANGED <<reg, now, newCount, devices, task, clamped, count>>
    /\ UNCHANGED <<storageErrors, sched, conc, gone, vents, fine>>

\* One iteration of discover's for loop; after the last one new_devices is returned.
DiscoverStep(outcome, pos) ==
    /\ pc = "discover"
    /\ queue # << >>
    /\ LET addr  == Head(queue)
           found == probe_device(addr, outcome, pos)
       IN /\ sent' = probe_requests(addr, outcome)
          /\ tried' = tried \cup {addr}
          /\ IF found = {}
             THEN /\ last' = NoCall
                  /\ UNCHANGED <<reg, result, newCount, okIds>>
             ELSE \E device \in found :
                    LET after    == upsert(reg, device, now)
                        existing == discover_existing(reg, after, device.eui64)
                    IN /\ reg' = after
                       /\ last' = [op |-> "upsert", device |-> device]
                       /\ okIds' = okIds \cup {device.eui64}
                       /\ IF existing = {}
                          THEN /\ result' = Append(result, device)
                               /\ newCount' = [newCount EXCEPT
                                                 ![device.eui64] = Bump(@)]
                          ELSE UNCHANGED <<result, newCount>>
    /\ queue' = Tail(queue)
    /\ pc' = IF Tail(queue) = << >> THEN "returned" ELSE "discover"
    /\ UNCHANGED <<now, call, devices, task, clamped, before, count>>
    /\ UNCHANGED <<storageErrors, sched, conc, gone, vents, fine>>

\* poll_all: if not device.ipv6_address: continue
poll_skips(device) == device.ipv6_address = ""

\* A plausible slip: the first failed probe ends the loop.
poll_rest_abort(q, found) == IF found = {} THEN << >> ELSE Tail(q)

\* poll_all: the try/except sits inside the for loop, which goes on to the
\* next device whatever the probe gave.
poll_rest(q, found) == Tail(q)

\* poll_all up to the for loop: an empty registry returns 0 at once.
PollStart ==
    /\ pc = "idle"
    /\ call' = [op |-> "poll_all"]
    /\ devices' = list_all(reg)
    /\ queue' = list_all(reg)
    /\ pc' = IF list_all(reg) = << >> THEN "returned" ELSE "poll"
    /\ before' = DOMAIN reg
    /\ count' = 0
    /\ tried' = {}
    /\ okIds' = {}
    /\ sent' = << >>
    /\ last' = NoCall
    /\ UNCHANGED <<reg, now, newCount, task, clamped, result>>
    /\ UNCHANGED <<storageErrors, sched, conc, gone, vents, fine>>

\* One iteration of poll_all's for loop; after the last one count is returned.
PollStep(outcome, pos) ==
    /\ pc = "poll"
    /\ queue # << >>
    /\ LET device == Head(queue)
           found  == probe_device(device.ipv6_address, outcome, pos)
       IN IF poll_skips(device)
          THEN /\ outcome = "ok" /\ pos = <<90, 1>>
               /\ sent' = << >>
               /\ last' = NoCall
               /\ queue' = Tail(queue)
               /\ pc' = IF Tail(queue) = << >> THEN "returned" ELSE "poll"
               /\ UNCHANGED <<reg, count, tried, okIds>>
          ELSE /\ sent' = probe_requests(device.ipv6_address, outcome)
               /\ tried' = tried \cup {device.eui64}
               /\ queue' = poll_rest(queue, found)
               /\ pc' = IF poll_rest(queue, found) = << >> THEN "returned" ELSE "poll"
               /\ IF found = {}
                  THEN /\ last' = NoCall
                       /\ UNCHANGED <<reg, count, okIds>>
                  ELSE \E updated_ \in found :
                         /\ reg' = upsert(reg, updated_, now)
                         /\ last' = [op |-> "upsert", device |-> updated_]
                         /\ count' = count + 1
                         /\ okIds' = okIds \cup {device.eui64}
    /\ UNCHANGED <<now, newCount, call, devices, task, clamped, before, result>>
    /\ UNCHANGED <<storageErrors, sched, conc, gone, vents, fine>>

(***************************************************************************)
(* The hub: operations run one after another on one event loop              *)
(***************************************************************************)
\* A record registered by hand before the device was ever reached: the
\* dataclass defaults, no address.
ManualDevices ==
    {VentDevice(id, "", RoomOf(id), FloorOf(id), NameOf(id), 90, "closed",
                [firmware_version |-> "", rssi |-> 0, power_source |-> "usb",
                 poll_period_ms |-> 0]) : id \in Ids}

\* await registry.delete(eui64)
DeleteRow(eui64) ==
    /\ pc = "idle"
    /\ reg' = delete(reg, eui64)
    /\ last' = [op |-> "delete", eui64 |-> eui64, ret |-> affected(reg, eui64) > 0]
    /\ newCount' = [newCount EXCEPT ![eui64] = 0]
    /\ UNCHANGED <<now, sent, hub>>
    /\ UNCHANGED <<storageErrors, sched, conc, vents, fine>>

\* The delete, with no note kept of what it removed.
Delete(eui64) ==
    /\ DeleteRow(eui64)
    /\ UNCHANGED gone

\* The delete, noting the id when the record it removed had a room.
DeleteNoted(eui64) ==
    /\ DeleteRow(eui64)
    /\ gone' = gone \cup {x \in DOMAIN reg \ DOMAIN reg' : reg[x].room # ""}

\* The angle the group sets of the mixed runs ask for.
HubAngles == {999}

Next ==
    \/ \E d \in ManualDevices : Upsert(d)
    \/ \E id \in Ids : Delete(id)
    \/ \E c \in GroupCalls, a \in HubAngles : GroupStart(c, a)
    \/ \E i \in 1..Cardinality(Ids), ok \in BOOLEAN : SetOneSend(i, ok)
    \/ \E i \in 1..Cardinality(Ids) : SetOneWrite(i)
    \/ GroupReturn
    \/ \E addresses \in AddressLists : DiscoverStart(addresses)
    \/ \E run \in ProbeRuns : DiscoverStep(run[1], run[2])
    \/ PollStart
    \/ \E run \in ProbeRuns : PollStep(run[1], run[2])
    \/ Done

Spec == Init /\ [][Next]_vars

(***************************************************************************)
(* Group sets on their own, from every registry that registering by hand    *)
(* and discovering can have left behind                                     *)
(***************************************************************************)
\* The row of an id: registered by hand (no address) or as discovery stored it.
StoredRows(id) ==
    {[d EXCEPT !.last_seen = 0] : d \in {m \in ManualDevices : m.eui64 = id}}
    \cup {[d EXCEPT !.last_seen = 0] :
            d \in probe_device(AddrOf(id), "ok", <<90, 1>>)}

Registries ==
    UNION { {r \in [S -> UNION {StoredRows(id) : id \in S}] :
                \A id \in S : r[id] \in StoredRows(id)} : S \in SUBSET Ids }

GroupInit ==
    /\ reg \in Registries
    /\ now = 0
    /\ last = NoCall
    /\ sent = << >>
    /\ newCount = [id \in Ids |-> 0]
    /\ HubIdle
    /\ storageErrors = {}
    /\ SchedIdle
    /\ ConcIdle
    /\ gone = {}
    /\ vents = Installed
    /\ FineIdle

GroupNext ==
    \/ \E c \in GroupCalls, a \in AngleInputs : GroupStart(c, a)
    \/ \E i \in 1..Cardinality(Ids), ok \in BOOLEAN : SetOneSend(i, ok)
    \/ \E i \in 1..Cardinality(Ids) : SetOneWrite(i)
    \/ GroupReturn
    \/ Done

SpecGroup == GroupInit /\ [][GroupNext]_vars

(***************************************************************************)
(* The fleet's records under every writer: discovery and polling of peers   *)
(* that may report any position, the single-device set of the command line, *)
(* and the registry API called directly                                     *)
(***************************************************************************)
\* cli.set: await registry.update_position(eui64, angle, "moving") is given the
\* angle of the command line as it came.
cli_set_angle(a) == a

\* The angles asked for on the command line.
CliAngles == {999}

\* vent-hub set EUI64 ANGLE: look the device up, give up when it is unknown or
\* has no address, send set_target, and on its acknowledgement write the
\* position; a failed exchange raises out of the command.
CliSet(eui64, a, ok) ==
    /\ pc = "idle"
    /\ call' = [op |-> "cli_set", eui64 |-> eui64, angle |-> a]
    /\ LET found == get(reg, eui64)
       IN IF found = {} \/ \A device \in found : device.ipv6_address = ""
          THEN /\ ok
               /\ sent' = << >>
               /\ last' = NoCall
               /\ pc' = "returned"
               /\ UNCHANGED reg
          ELSE \E device \in found :
                 /\ sent' = <<set_target(device.ipv6_address, a)>>
                 /\ IF ok
                    THEN /\ reg' = update_position(reg, eui64, cli_set_angle(a),
                                                   "moving", now)
                         /\ last' = [op |-> "update_position", eui64 |-> eui64,
                                     angle |-> cli_set_angle(a), state |-> "moving"]
                         /\ pc' = "returned"
                    ELSE /\ last' = NoCall
                         /\ pc' = "raised"
                         /\ UNCHANGED reg
    /\ UNCHANGED <<now, newCount, devices, task, clamped, queue, tried, okIds, before,
                   result, count, storageErrors, sched, conc, gone, vents, fine>>

\* The labels an operator assigns.
Assignments == {<<"kitchen", "1">>}

\* await registry.update_assignment(eui64, room, floor), called directly.
UpdateAssignment(eui64, room, floor) ==
    /\ pc = "idle"
    /\ reg' = update_assignment(reg, eui64, room, floor)
    /\ last' = [op |-> "update_assignment", eui64 |-> eui64, room |-> room,
                floor |-> floor, ret |-> affected(reg, eui64) > 0]
    /\ UNCHANGED <<now, sent, newCount, hub, storageErrors, sched, conc, gone,
                   vents, fine>>

\* The ways one probe of a peer can go: answered closed at 90, answered 135
\* with a state code the hub does not know, or the first request unanswered.
FleetRuns ==
    {<<"ok", <<90, 1>> >>, <<"ok", <<135, 7>> >>, <<ProbeCalls[1], <<90, 1>> >>}

\* The scans: more than one address at a time.
FleetAddressLists == {l \in AddressLists : Len(l) > 1}

\* await registry.update_position(eui64, angle, state), called directly.
UpdatePosition(eui64, a, state) ==
    /\ pc = "idle"
    /\ reg' = update_position(reg, eui64, a, state, now)
    /\ last' = [op |-> "update_position", eui64 |-> eui64, angle |-> a,
                state |-> state, ret |-> affected(reg, eui64) > 0]
    /\ UNCHANGED <<now, sent, newCount, hub, storageErrors, sched, conc, gone,
                   vents, fine>>

FleetNext ==
    \/ \E d \in ManualDevices : Upsert(d)
    \/ \E id \in Ids : Delete(id)
    \/ \E id \in Ids, as \in Assignments : UpdateAssignment(id, as[1], as[2])
    \/ \E id \in Ids, a \in CliAngles, ok \in BOOLEAN : CliSet(id, a, ok)
    \/ \E addresses \in FleetAddressLists : DiscoverStart(addresses)
    \/ \E run \in FleetRuns : DiscoverStep(run[1], run[2])
    \/ PollStart
    \/ \E run \in FleetRuns : PollStep(run[1], run[2])
    \/ Done

SpecFleet == Init /\ [][FleetNext]_vars

(***************************************************************************)
(* The registry API called directly: every write and every query            *)
(***************************************************************************)
\* Records an API consumer upserts: the labelled records of the fixture and a
\* probe result that carries no labels.
ApiDevices ==
    ManualDevices
    \cup { VentDevice("d1", AddrOf("d1"), "", "", "", 135, "partial",
                      CHOOSE q \in Profiles : q.power_source = "battery") }

\* The labels update_assignment is given: another room and an empty floor.
ApiAssignments == {<<"kitchen", "">>}

\* The positions update_position is given.
ApiPositions == {<<180, "moving">>}

\* The ids the updates are called with; d3 is only ever upserted and deleted.
ApiIds == {"d1", "d2"}

ApiNext ==
    \/ \E d \in ApiDevices : Upsert(d)
    \/ Tick
    \/ \E id \in ApiIds, as \in ApiAssignments : UpdateAssignment(id, as[1], as[2])
    \/ \E id \in ApiIds, p \in ApiPositions : UpdatePosition(id, p[1], p[2])
    \/ \E id \in Ids : DeleteNoted(id)

SpecApi == Init /\ [][ApiNext]_vars

(***************************************************************************)
(* Two tasks of the one event loop inside DeviceRegistry.upsert at once     *)
(***************************************************************************)
\* A plausible slip: the row the statement merges into is the one that was
\* there when the tasks were started.
statement_sees_launch(atLaunch, stored) == atLaunch

\* ON CONFLICT(eui64) DO UPDATE reads devices.room, devices.floor and
\* devices.name inside the one statement, on the one connection.
statement_sees(atLaunch, stored) == stored

\* Records two tasks may upsert at once: probe results without labels and
\* records that carry a room.
ConcDevices ==
    { VentDevice(id, AddrOf(id), "", "", "", 135, "partial",
                 CHOOSE q \in Profiles : q.power_source = "battery") : id \in {"d1", "d2"} }
    \cup
    { VentDevice("d1", "", "kitchen", "", "", 180, "open",
                 CHOOSE q \in Profiles : q.power_source = "usb") }

\* Two tasks call upsert; neither has run its first statement.
ConcStart(dA, dB) ==
    /\ pc = "idle"
    /\ pc' = "gather"
    /\ call' = [op |-> "concurrent_upserts"]
    /\ writers' = <<[st |-> "called", device |-> dA, t |-> NoTime],
                    [st |-> "called", device |-> dB, t |-> NoTime]>>
    /\ reg0' = reg
    /\ last' = NoCall
    /\ UNCHANGED <<reg, now, sent, newCount, devices, task, clamped, queue, tried,
                   okIds, before, result, count, storageErrors, sched, gone,
                   vents, fine>>

\* now = datetime.now(timezone.utc).isoformat()
UpsertRead(i) ==
    /\ pc = "gather"
    /\ i \in DOMAIN writers
    /\ writers[i].st = "called"
    /\ writers' = [writers EXCEPT ![i].st = "timed", ![i].t = now]
    /\ UNCHANGED <<reg, now, last, sent, newCount, hub, storageErrors, sched, reg0, gone,
                   vents, fine>>

\* await self._db.execute(INSERT ... ON CONFLICT ...): one statement.
UpsertExecute(i) ==
    /\ pc = "gather"
    /\ i \in DOMAIN writers
    /\ writers[i].st = "timed"
    /\ reg' = upsert(statement_sees(reg0, reg), writers[i].device, writers[i].t)
    /\ writers' = [writers EXCEPT ![i].st = "executed"]
    /\ last' = [op |-> "upsert", device |-> writers[i].device]
    /\ UNCHANGED <<now, sent, newCount, hub, storageErrors, sched, reg0, gone,
                   vents, fine>>

\* await self._db.commit()
UpsertCommit(i) ==
    /\ pc = "gather"
    /\ i \in DOMAIN writers
    /\ writers[i].st = "executed"
    /\ writers' = [writers EXCEPT ![i].st = "done"]
    /\ UNCHANGED <<reg, now, last, sent, newCount, hub, storageErrors, sched, reg0, gone,
                   vents, fine>>

\* Both tasks have returned.
ConcReturn ==
    /\ pc = "gather"
    /\ \A i \in DOMAIN writers : writers[i].st = "done"
    /\ pc' = "returned"
    /\ UNCHANGED <<reg, now, last, sent, newCount, call, devices, task, clamped, queue,
                   tried, okIds, before, result, count, storageErrors, sched, conc, gone,
                   vents, fine>>

ConcNext ==
    \/ \E d \in ManualDevices : Upsert(d)
    \/ Tick
    \/ \E dA, dB \in ConcDevices : ConcStart(dA, dB)
    \/ \E i \in 1..2 : UpsertRead(i)
    \/ \E i \in 1..2 : UpsertExecute(i)
    \/ \E i \in 1..2 : UpsertCommit(i)
    \/ ConcReturn
    \/ Done

SpecConcurrent == Init /\ [][ConcNext]_vars

(***************************************************************************)
(* The client against the simulator's devices.  A CBOR map is a function    *)
(* from its integer keys; on the wire it is the sequence of its pairs.      *)
(***************************************************************************)
\* cbor2.dumps of a map with integer keys: the pairs, in ascending key order.
RECURSIVE cbor_dumps(_)
cbor_dumps(data) ==
    IF DOMAIN data = {} THEN << >>
    ELSE LET k == CHOOSE x \in DOMAIN data : \A y \in DOMAIN data : x <= y
         IN <<<<k, data[k]>>>> \o cbor_dumps([x \in DOMAIN data \ {k} |-> data[x]])

\* cbor2.loads: the map the pairs stand for.
cbor_loads(wire) ==
    [k \in {wire[i][1] : i \in DOMAIN wire} |->
        (CHOOSE pair \in {wire[i] : i \in DOMAIN wire} : pair[1] = k)[2]]

\* A parameter left at None is << >>, a parameter given is <<value>>.
\* A plausible slip: a parameter left at None is sent as the empty string.
config_payload_blank(room, floor, name) ==
    [k \in 0..2 |-> CASE k = 0 -> IF room = << >> THEN "" ELSE room[1]
                     [] k = 1 -> IF floor = << >> THEN "" ELSE floor[1]
                     [] OTHER -> IF name = << >> THEN "" ELSE name[1]]

\* set_config: payload[k] is set for every parameter that is not None.
config_payload(room, floor, name) ==
    LET given == (IF room # << >> THEN {0} ELSE {})
                 \cup (IF floor # << >> THEN {1} ELSE {})
                 \cup (IF name # << >> THEN {2} ELSE {})
    IN [k \in given |-> CASE k = 0 -> room[1] [] k = 1 -> floor[1] [] OTHER -> name[1]]

\* get_config / set_config: data.get(k, "") for the three keys.
config_of(data) ==
    [room  |-> IF 0 \in DOMAIN data THEN data[0] ELSE "",
     floor |-> IF 1 \in DOMAIN data THEN data[1] ELSE "",
     name  |-> IF 2 \in DOMAIN data THEN data[2] ELSE ""]

\* DeviceConfigResource.render_get: {0: room, 1: floor, 2: name}
render_get_config(vent) ==
    [k \in 0..2 |-> CASE k = 0 -> vent.room [] k = 1 -> vent.floor [] OTHER -> vent.name]

\* DeviceConfigResource.render_put: each key present replaces its field.
render_put_config(vent, data) ==
    [vent EXCEPT !.room  = IF 0 \in DOMAIN data THEN data[0] ELSE @,
                 !.floor = IF 1 \in DOMAIN data THEN data[1] ELSE @,
                 !.name  = IF 2 \in DOMAIN data THEN data[2] ELSE @]

\* The values set_config is called with.
RoomArgs == {<< >>, <<"kitchen">>, <<"">>}
FloorArgs == {<< >>, <<"1">>}
NameArgs == {<< >>, <<"kitchen-main">>}

\* await coap.set_config(address, room, floor, name) against a device that
\* answers: one PUT, applied by the device, answered with its configuration.
SetConfig(address, room, floor, name) ==
    /\ pc = "idle"
    /\ LET id == DeviceAt(address)
           payload == config_payload(room, floor, name)
           vent == render_put_config(vents[id], cbor_loads(cbor_dumps(payload)))
           data == cbor_loads(cbor_dumps(render_get_config(vent)))
       IN /\ vents' = [vents EXCEPT ![id] = vent]
          /\ sent' = <<[code |-> "PUT", address |-> address, path |-> "device/config",
                        payload |-> payload]>>
          /\ last' = [op |-> "set_config", address |-> address, room |-> room,
                      floor |-> floor, name |-> name, prior |-> vents[id],
                      ret |-> config_of(data)]
    /\ UNCHANGED <<reg, now, newCount, hub, storageErrors, sched, conc, gone, fine>>

\* await coap.get_config(address) against a device that answers.
GetConfig(address) ==
    /\ pc = "idle"
    /\ pc' = "returned"
    /\ call' = [op |-> "get_config", address |-> address]
    /\ sent' = <<[code |-> "GET", address |-> address, path |-> "device/config"]>>
    /\ result' = <<config_of(cbor_loads(cbor_dumps(
                        render_get_config(vents[DeviceAt(address)]))))>>
    /\ UNCHANGED <<reg, now, last, newCount, devices, task, clamped, queue, tried,
                   okIds, before, count, storageErrors, sched, conc, gone, vents, fine>>

\* The devices the configuration calls go to.
PeerIds == {"d1", "d3"}

PeerNext ==
    \/ \E id \in PeerIds, room \in RoomArgs, floor \in FloorArgs, name \in NameArgs :
            SetConfig(AddrOf(id), room, floor, name)
    \/ \E id \in PeerIds : GetConfig(AddrOf(id))
    \/ Done

SpecPeer == Init /\ [][PeerNext]_vars

(***************************************************************************)
(* Group sets against the simulator's devices: every exchange is answered   *)
(* and the device acts on it                                                *)
(***************************************************************************)
\* VirtualVent.set_angle: clamp, then closed at 90, open at 180, else partial.
set_angle(vent, a) ==
    LET angle == Max2(90, Min2(180, a))
    IN [vent EXCEPT !.angle = angle,
                    !.state = CASE angle = 90 -> "closed" [] angle = 180 -> "open"
                                [] OTHER -> "partial"]

\* A plausible slip: the target is read from another key and so defaults.
render_put_target_wrong_key(vent, data) ==
    set_angle(vent, IF 1 \in DOMAIN data THEN data[1] ELSE 90)

\* VentTargetResource.render_put: target_angle = data.get(0, 90); set_angle.
render_put_target(vent, data) ==
    set_angle(vent, IF 0 \in DOMAIN data THEN data[0] ELSE 90)

\* _set_one up to the acknowledgement, the device at the address applying the
\* PUT it received.
SetOneDeliver(i) ==
    /\ SetOneExchange(i, TRUE)
    /\ IF set_one_skips(devices[i])
       THEN UNCHANGED vents
       ELSE LET id == DeviceAt(devices[i].ipv6_address)
                data == cbor_loads(cbor_dumps([k \in {0} |-> sent'[1].payload]))
            IN vents' = [vents EXCEPT ![id] = render_put_target(@, data)]

\* The angles the group sets against the simulator ask for.
PeerAngles == {135, 999}

PeerGroupNext ==
    \/ \E c \in GroupCalls, a \in PeerAngles : GroupStart(c, a)
    \/ \E i \in 1..Cardinality(Ids) : SetOneDeliver(i)
    \/ \E i \in 1..Cardinality(Ids) : SetOneWrite(i)
    \/ GroupReturn
    \/ Done

SpecPeerGroup == GroupInit /\ [][PeerGroupNext]_vars

(***************************************************************************)
(* The six calls of CoapClient against any peer: the exchange may fail in   *)
(* transport, come back with an error code, or carry a map that lacks keys  *)
(***************************************************************************)
ClientOps == {"get_position", "set_target", "get_identity", "get_config",
              "set_config", "get_health"}

\* The method and path of the request each call builds.
request_of(op, address) ==
    CASE op = "get_position" -> [code |-> "GET", address |-> address, path |-> "vent/position"]
      [] op = "set_target"   -> [code |-> "PUT", address |-> address, path |-> "vent/target"]
      [] op = "get_identity" -> [code |-> "GET", address |-> address, path |-> "device/identity"]
      [] op = "get_config"   -> [code |-> "GET", address |-> address, path |-> "device/config"]
      [] op = "set_config"   -> [code |-> "PUT", address |-> address, path |-> "device/config"]
      [] OTHER               -> [code |-> "GET", address |-> address, path |-> "device/health"]

\* How an exchange can end: no response at all, a response with an error
\* code, or a successful response with its CBOR map.
TransportError == [kind |-> "transport_error"]
ErrorCode == [kind |-> "response", successful |-> FALSE]
Success(data) == [kind |-> "response", successful |-> TRUE, data |-> data]

\* Restriction of a map to some of its keys: a response that omits the others.
Only(data, keys) == [k \in DOMAIN data \cap keys |-> data[k]]

\* The maps a peer may answer each call with, whole and with keys left out.
Payloads(op) ==
    CASE op \in {"get_position", "set_target"} ->
            UNION {LET full == [k \in 0..1 |-> p[k + 1]]
                   IN {full, Only(full, {0}), Only(full, {1}), Only(full, {})} :
                   p \in WirePositions}
      [] op = "get_identity" ->
            {[k \in 0..2 |-> CASE k = 0 -> "d1" [] k = 1 -> "0.1.0" [] OTHER -> 3600]}
      [] op \in {"get_config", "set_config"} ->
            LET full == [k \in 0..2 |-> CASE k = 0 -> "kitchen" [] k = 1 -> "1"
                                          [] OTHER -> "kitchen-main"]
            IN {full, Only(full, {1, 2}), Only(full, {0, 2}), Only(full, {0, 1}),
                Only(full, {})}
      [] OTHER ->
            LET full == [k \in 0..4 |-> CASE k = 0 -> -55 [] k = 1 -> 5000 [] k = 2 -> 1
                                          [] k = 3 -> 200000 [] OTHER -> 3300]
            IN {full, Only(full, {0, 1, 3, 4}), Only(full, {0, 1, 2, 3})}

Responses(op) == {TransportError, ErrorCode} \cup {Success(d) : d \in Payloads(op)}

\* A plausible slip: a failed exchange is tried once more.
requests_sent_retry(request, response) ==
    IF response.kind = "response" /\ response.successful
    THEN <<request>> ELSE <<request, request>>

\* _get / _put: one self._context.request(request).response is awaited.
requests_sent(request, response) == <<request>>

\* _get / _put: an exception of the exchange propagates; a response whose
\* code is not successful raises CoapError.
exchange_fails(response) ==
    response.kind = "transport_error" \/ ~response.successful

\* The keys each call indexes with data[k]: a map without one raises KeyError.
indexed(op) ==
    CASE op = "get_position" -> {0, 1}
      [] op = "get_identity" -> {0, 1, 2}
      [] op = "get_health"   -> {0, 1, 2, 3}
      [] OTHER               -> {}

\* What each call returns from the map of a successful response.
returned_value(op, data) ==
    CASE op = "get_position" -> [angle |-> data[0], state |-> state_map(data[1])]
      [] op = "get_identity" ->
            [eui64 |-> data[0], firmware_version |-> data[1], uptime_s |-> data[2]]
      [] op = "get_health" ->
            [rssi |-> data[0], poll_period_ms |-> data[1],
             power_source |-> IF data[2] = 0 THEN "usb" ELSE "battery",
             free_heap |-> data[3],
             battery_mv |-> IF 4 \in DOMAIN data THEN <<data[4]>> ELSE << >>]
      [] op \in {"get_config", "set_config"} -> config_of(data)
      [] OTHER -> data

\* await coap.<op>(address, ...): the request goes out, and the call returns a
\* value or raises.
ClientCall(op, address, response) ==
    /\ pc = "idle"
    /\ call' = [op |-> op, address |-> address, response |-> response]
    /\ sent' = requests_sent(request_of(op, address), response)
    /\ IF exchange_fails(response)
       THEN pc' = "raised" /\ result' = << >>
       ELSE LET data == cbor_loads(cbor_dumps(response.data))
            IN IF indexed(op) \subseteq DOMAIN data
               THEN pc' = "returned" /\ result' = <<returned_value(op, data)>>
               ELSE pc' = "raised" /\ result' = << >>
    /\ last' = NoCall
    /\ UNCHANGED <<reg, now, newCount, devices, task, clamped, queue, tried, okIds,
                   before, count, storageErrors, sched, conc, gone, vents, fine>>

CallsNext ==
    \/ \E op \in ClientOps, id \in Ids :
            \E response \in Responses(op) : ClientCall(op, AddrOf(id), response)
    \/ Done

SpecCalls == Init /\ [][CallsNext]_vars

(***************************************************************************)
(* The hub over a registry whose writes may fail (sqlite3.Error raised by   *)
(* execute or commit)                                                       *)
(***************************************************************************)
\* _set_one: except Exception as e: logger.error(...); raise
set_one_reraises == TRUE

\* _set_one when update_position raises after the acknowledgement: the except
\* clause logs and re-raises, the task ends with the exception, device.angle is
\* not assigned.
SetOneWriteFails(i) ==
    /\ pc = "group"
    /\ i \in DOMAIN task
    /\ set_one_writes(task[i])
    /\ set_one_reraises
    /\ task' = [task EXCEPT ![i].st = "failed"]
    /\ storageErrors' = storageErrors \cup {devices[i].eui64}
    /\ last' = [op |-> "update_position", eui64 |-> devices[i].eui64,
                angle |-> clamped, state |-> "moving", raised |-> TRUE]
    /\ sent' = << >>
    /\ UNCHANGED <<reg, now, newCount, pc, call, devices, clamped, queue, tried,
                   okIds, before, result, count, sched, conc, gone, vents, fine>>

\* discover: get and upsert are awaited outside any try block.
discover_catches_storage == FALSE

\* An iteration of discover's for loop in which the probe succeeds and upsert
\* raises: the exception leaves discover.
DiscoverStepFails(pos) ==
    /\ pc = "discover"
    /\ queue # << >>
    /\ LET addr  == Head(queue)
           found == probe_device(addr, "ok", pos)
       IN /\ sent' = probe_requests(addr, "ok")
          /\ tried' = tried \cup {addr}
          /\ \E device \in found :
                /\ storageErrors' = storageErrors \cup {device.eui64}
                /\ last' = [op |-> "upsert", device |-> device, raised |-> TRUE]
    /\ queue' = Tail(queue)
    /\ pc' = IF discover_catches_storage
             THEN (IF Tail(queue) = << >> THEN "returned" ELSE "discover")
             ELSE "raised"
    /\ UNCHANGED <<reg, now, newCount, call, devices, task, clamped, okIds, before,
                   result, count, sched, conc, gone, vents, fine>>

\* poll_all: probe_device and upsert are both inside try ... except Exception,
\* whose handler logs at debug level and lets the loop go on.
poll_catches_storage == TRUE

\* An iteration of poll_all's for loop in which the probe succeeds and upsert
\* raises: count += 1 is not reached.
PollStepFails(pos) ==
    /\ pc = "poll"
    /\ queue # << >>
    /\ ~poll_skips(Head(queue))
    /\ LET device == Head(queue)
           found  == probe_device(device.ipv6_address, "ok", pos)
       IN /\ sent' = probe_requests(device.ipv6_address, "ok")
          /\ tried' = tried \cup {device.eui64}
          /\ \E updated_ \in found :
                /\ storageErrors' = storageErrors \cup {updated_.eui64}
                /\ last' = [op |-> "upsert", device |-> updated_, raised |-> TRUE]
    /\ queue' = Tail(queue)
    /\ pc' = IF poll_catches_storage
             THEN (IF Tail(queue) = << >> THEN "returned" ELSE "poll")
             ELSE "raised"
    /\ UNCHANGED <<reg, now, newCount, call, devices, task, clamped, okIds, before,
                   result, count, sched, conc, gone, vents, fine>>

FaultyNext ==
    \/ \E c \in GroupCalls, a \in HubAngles : GroupStart(c, a)
    \/ \E i \in 1..Cardinality(Ids), ok \in BOOLEAN : SetOneSend(i, ok)
    \/ \E i \in 1..Cardinality(Ids) : SetOneWrite(i)
    \/ \E i \in 1..Cardinality(Ids) : SetOneWriteFails(i)
    \/ GroupReturn
    \/ \E addresses \in AddressLists : DiscoverStart(addresses)
    \/ \E run \in ProbeRuns : DiscoverStep(run[1], run[2])
    \/ \E pos \in Positions : DiscoverStepFails(pos)
    \/ PollStart
    \/ \E run \in ProbeRuns : PollStep(run[1], run[2])
    \/ \E pos \in Positions : PollStepFails(pos)
    \/ Done

SpecFaulty == Init /\ [][FaultyNext]_vars

(***************************************************************************)
(* Scheduler.  Its GroupManager is the collaborator it awaits: a call is    *)
(* recorded with its arguments and either returns or raises.                *)
(***************************************************************************)
\* datetime.time values: the minutes around 08:00 and 09:00, with seconds.
Times ==
    {[hour |-> h, minute |-> m, second |-> sec] :
        h \in {8, 9}, m \in {0, 1}, sec \in {0, 30}}

\* @dataclass ScheduleRule
ScheduleRule(name, time, target, target_type, a, enabled) ==
    [name |-> name, time |-> time, target |-> target, target_type |-> target_type,
     angle |-> a, enabled |-> enabled]

\* The rules an operator may add.
RulePool ==
    { ScheduleRule("morning", [hour |-> 8, minute |-> 0, second |-> 0],
                   "bedroom", "room", 135, TRUE),
      ScheduleRule("open_all", [hour |-> 8, minute |-> 0, second |-> 0],
                   "all", "all", 180, TRUE),
      ScheduleRule("close_floor", [hour |-> 8, minute |-> 1, second |-> 0],
                   "2", "floor", 90, TRUE),
      ScheduleRule("off", [hour |-> 8, minute |-> 0, second |-> 0],
                   "bedroom", "room", 90, FALSE),
      ScheduleRule("evening", [hour |-> 9, minute |-> 0, second |-> 0],
                   "2", "floor", 180, TRUE) }

\* A plausible slip: the minute is left out of the comparison.
matches_time_hour_only(rule, t) ==
    rule.enabled /\ rule.time.hour = t.hour

\* ScheduleRule.matches_time
matches_time(rule, t) ==
    rule.enabled /\ rule.time.hour = t.hour /\ rule.time.minute = t.minute

\* _execute_rule: the GroupManager call the if / elif chain selects.
execute_rule(rule) ==
    CASE rule.target_type = "all" ->
            <<[op |-> "set_all_angle", target |-> "", angle |-> rule.angle]>>
      [] rule.target_type = "room" ->
            <<[op |-> "set_room_angle", target |-> rule.target, angle |-> rule.angle]>>
      [] rule.target_type = "floor" ->
            <<[op |-> "set_floor_angle", target |-> rule.target, angle |-> rule.angle]>>
      [] OTHER -> << >>

\* A plausible slip: _execute_rule has no except clause.
execute_rule_propagates == FALSE

\* _execute_rule: except Exception as e: logger.error(...)
execute_rule_catches == TRUE

\* scheduler.add_rule(rule)
AddRule(rule) ==
    /\ pc = "idle"
    /\ loop = "none"
    /\ Len(rules) < MaxRules
    /\ rules' = Append(rules, rule)
    /\ UNCHANGED <<reg, now, last, sent, newCount, hub, storageErrors, running, loop,
                   current, idx, executed, gmCalls, stopAsked, conc, gone, vents, fine>>

\* self._rules = [r for r in self._rules if r.name != name]
remove_rule(rs, name) == SelectSeq(rs, LAMBDA r : r.name # name)

\* scheduler.remove_rule(name): returns len(self._rules) < before
RemoveRule(name) ==
    /\ pc = "idle"
    /\ loop = "none"
    /\ rules' = remove_rule(rules, name)
    /\ UNCHANGED <<reg, now, last, sent, newCount, hub, storageErrors, running, loop,
                   current, idx, executed, gmCalls, stopAsked, conc, gone, vents, fine>>

\* await scheduler.check_rules(current_time), up to the for loop.
CheckRules(t) ==
    /\ pc = "idle"
    /\ loop = "none"
    /\ call' = [op |-> "check_rules", current_time |-> t]
    /\ current' = t
    /\ idx' = 1
    /\ executed' = 0
    /\ gmCalls' = << >>
    /\ pc' = IF rules = << >> THEN "returned" ELSE "check"
    /\ result' = IF rules = << >> THEN <<0>> ELSE << >>
    /\ UNCHANGED <<reg, now, last, sent, newCount, devices, task, clamped, queue,
                   tried, okIds, before, count, storageErrors, rules, running, loop,
                   stopAsked, conc, gone, vents, fine>>

\* One iteration of check_rules' for loop, for a direct call or inside a tick of
\* run(): a matching rule is executed (the GroupManager call returns or raises)
\* and counted; after the last rule executed is returned.
CheckStep(ok) ==
    /\ pc = "check" \/ loop = "tick"
    /\ idx \in DOMAIN rules
    /\ LET rule   == rules[idx]
           made   == [k \in DOMAIN execute_rule(rule) |->
                        [op |-> execute_rule(rule)[k].op,
                         target |-> execute_rule(rule)[k].target,
                         angle |-> execute_rule(rule)[k].angle,
                         raised |-> ~ok]]
           escapes == matches_time(rule, current) /\ ~ok /\ ~execute_rule_catches
           last_  == idx = Len(rules)
       IN /\ IF matches_time(rule, current)
             THEN /\ gmCalls' = gmCalls \o made
                  /\ executed' = IF escapes THEN executed ELSE executed + 1
             ELSE /\ ok
                  /\ UNCHANGED <<gmCalls, executed>>
          /\ idx' = idx + 1
          /\ IF pc = "check"
             THEN /\ pc' = IF escapes THEN "raised"
                           ELSE IF last_ THEN "returned" ELSE "check"
                  /\ result' = IF ~escapes /\ last_ THEN <<executed'>> ELSE << >>
                  /\ UNCHANGED loop
             ELSE /\ loop' = IF escapes THEN "crashed"
                             ELSE IF last_ THEN "sleep" ELSE "tick"
                  /\ UNCHANGED <<pc, result>>
    /\ UNCHANGED <<reg, now, last, sent, newCount, call, devices, task, clamped,
                   queue, tried, okIds, before, count, storageErrors, rules, running,
                   current, stopAsked, conc, gone, vents, fine>>

\* task = asyncio.create_task(scheduler.run()): the task exists, its first
\* statement has not run.
RunCreate ==
    /\ pc = "idle"
    /\ loop \in {"none", "exited"}
    /\ loop' = "created"
    /\ stopAsked' = FALSE
    /\ UNCHANGED <<reg, now, last, sent, newCount, hub, storageErrors, rules, running,
                   current, idx, executed, gmCalls, conc, gone, vents, fine>>

\* run: self._running = True
RunBegin ==
    /\ loop = "created"
    /\ running' = TRUE
    /\ loop' = "top"
    /\ UNCHANGED <<reg, now, last, sent, newCount, hub, storageErrors, rules, current,
                   idx, executed, gmCalls, stopAsked, conc, gone, vents, fine>>

\* now = datetime.now().time().replace(second=0, microsecond=0)
truncate(t) == [t EXCEPT !.second = 0]

\* run: while self._running: ... await self.check_rules(now), up to check_rules'
\* for loop; the loop is left when _running is false.
LoopTop(t) ==
    /\ loop = "top"
    /\ IF running
       THEN /\ current' = truncate(t)
            /\ idx' = 1
            /\ executed' = 0
            /\ gmCalls' = << >>
            /\ loop' = IF rules = << >> THEN "sleep" ELSE "tick"
       ELSE /\ t = truncate(t) /\ t.hour = 8 /\ t.minute = 0
            /\ loop' = "exited"
            /\ UNCHANGED <<current, idx, executed, gmCalls>>
    /\ UNCHANGED <<reg, now, last, sent, newCount, hub, storageErrors, rules, running,
                   stopAsked, conc, gone, vents, fine>>

\* run: await asyncio.sleep(60) is over.
SleepDone ==
    /\ loop = "sleep"
    /\ loop' = "top"
    /\ UNCHANGED <<reg, now, last, sent, newCount, hub, storageErrors, rules, running,
                   current, idx, executed, gmCalls, stopAsked, conc, gone, vents, fine>>

\* scheduler.stop(), called while the run task exists.
Stop ==
    /\ loop \in {"created", "top", "tick", "sleep"}
    /\ running' = FALSE
    /\ stopAsked' = TRUE
    /\ UNCHANGED <<reg, now, last, sent, newCount, hub, storageErrors, rules, loop,
                   current, idx, executed, gmCalls, conc, gone, vents, fine>>

SchedNext ==
    \/ \E rule \in RulePool : AddRule(rule)
    \/ \E rule \in RulePool : RemoveRule(rule.name)
    \/ \E t \in Times : CheckRules(t)
    \/ \E ok \in BOOLEAN : CheckStep(ok)
    \/ RunCreate
    \/ RunBegin
    \/ \E t \in Times : LoopTop(t)
    \/ SleepDone
    \/ Stop
    \/ Done

SpecScheduler == Init /\ [][SchedNext]_vars

(***************************************************************************)
(* last_seen under upserts of records that carry a last_seen of their own   *)
(***************************************************************************)
\* The last_seen an incoming VentDevice carries: None, a time in the past, a
\* time in the future.
CarriedTimes == {NoTime, 0, 9}

\* Records read back from the registry or built by a probe, with the
\* last_seen they carry.
SeenDevices ==
    { [d EXCEPT !.last_seen = t] :
        d \in ApiDevices \cup probe_device(AddrOf("d2"), "ok", <<135, 2>>),
        t \in CarriedTimes }

SeenNext ==
    \/ \E d \in SeenDevices : Upsert(d)
    \/ Tick
    \/ \E id \in ApiIds, p \in ApiPositions : UpdatePosition(id, p[1], p[2])
    \/ \E id \in ApiIds : Delete(id)

SpecSeen == Init /\ [][SeenNext]_vars

(***************************************************************************)
(* GroupManager summaries                                                  *)
(***************************************************************************)
\* Python's round(n / d) for d > 0: to the nearest integer, a tie to the even one.
round_div(n, d) ==
    LET q == n \div d
        r == n % d
    IN IF 2 * r < d THEN q
       ELSE IF 2 * r > d THEN q + 1
       ELSE IF q % 2 = 0 THEN q ELSE q + 1

\* sum(d.angle for d in devices)
RECURSIVE sum_angles(_)
sum_angles(devs) ==
    IF devs = << >> THEN 0 ELSE Head(devs).angle + sum_angles(Tail(devs))

\* A plausible slip: the sum is not divided by the number of devices.
average_angle_undivided(devs) ==
    IF devs # << >> THEN sum_angles(devs) ELSE 90

\* round(sum(d.angle for d in devices) / len(devices)) if devices else 90
average_angle(devs) ==
    IF devs # << >> THEN round_div(sum_angles(devs), Len(devs)) ELSE 90

\* get_room_summary
get_room_summary(r, room) ==
    LET devs == list_by_room(r, room)
    IN [room          |-> room,
        device_count  |-> Len(devs),
        average_angle |-> average_angle(devs),
        devices       |-> [i \in DOMAIN devs |->
                             [eui64 |-> devs[i].eui64, angle |-> devs[i].angle,
                              state |-> devs[i].state]]]

\* rooms.setdefault(d.room, []).append(d): the keys in first-seen order.
RECURSIVE room_keys(_, _)
room_keys(devs, seen) ==
    IF devs = << >> THEN seen
    ELSE IF \E i \in DOMAIN seen : seen[i] = Head(devs).room
         THEN room_keys(Tail(devs), seen)
         ELSE room_keys(Tail(devs), Append(seen, Head(devs).room))

\* get_floor_summary
get_floor_summary(r, floor) ==
    LET devs == list_by_floor(r, floor)
    IN [floor        |-> floor,
        device_count |-> Len(devs),
        room_count   |-> Len(room_keys(devs, << >>)),
        rooms        |-> room_keys(devs, << >>)]

\* await group_mgr.get_room_summary(room)
GetRoomSummary(room) ==
    /\ pc = "idle"
    /\ call' = [op |-> "get_room_summary", selector |-> room]
    /\ result' = <<get_room_summary(reg, room)>>
    /\ pc' = "returned"
    /\ sent' = << >>
    /\ last' = NoCall
    /\ UNCHANGED <<reg, now, newCount, devices, task, clamped, queue, tried, okIds,
                   before, count, storageErrors, sched, conc, gone, vents, fine>>

\* await group_mgr.get_floor_summary(floor)
GetFloorSummary(floor) ==
    /\ pc = "idle"
    /\ call' = [op |-> "get_floor_summary", selector |-> floor]
    /\ result' = <<get_floor_summary(reg, floor)>>
    /\ pc' = "returned"
    /\ sent' = << >>
    /\ last' = NoCall
    /\ UNCHANGED <<reg, now, newCount, devices, task, clamped, queue, tried, okIds,
                   before, count, storageErrors, sched, conc, gone, vents, fine>>

\* ALL_DEVICES of the tests: 90, 180 and 135 on floors "2", "2" and "1".
FixtureDevices ==
    { VentDevice("d1", AddrOf("d1"), RoomOf("d1"), FloorOf("d1"), NameOf("d1"),
                 90, "closed", ProfileOf("d1")),
      VentDevice("d2", AddrOf("d2"), RoomOf("d2"), FloorOf("d2"), NameOf("d2"),
                 180, "open", ProfileOf("d2")),
      VentDevice("d3", AddrOf("d3"), RoomOf("d3"), FloorOf("d3"), NameOf("d3"),
                 135, "partial", ProfileOf("d3")) }

\* The rooms and floors summaries are asked for: used ones, an unused one, "".
SummaryRooms == {"bedroom", "living-room", "kitchen", ""}
SummaryFloors == {"1", "2", ""}

\* The positions written between summaries: an angle that makes the mean of
\* two devices a tie, and one out of range as cli.set stores it.
SummaryPositions == {<<135, "moving">>, <<999, "moving">>}

SummaryNext ==
    \/ \E d \in FixtureDevices : Upsert(d)
    \/ \E id \in Ids, as \in Assignments : UpdateAssignment(id, as[1], as[2])
    \/ \E id \in ApiIds, p \in SummaryPositions : UpdatePosition(id, p[1], p[2])
    \/ \E id \in Ids : Delete(id)
    \/ \E room \in SummaryRooms : GetRoomSummary(room)
    \/ \E floor \in SummaryFloors : GetFloorSummary(floor)
    \/ Done

SpecSummary == Init /\ [][SummaryNext]_vars

(***************************************************************************)
(* discover() with the ot-ctl commands it runs                              *)
(***************************************************************************)
\* How one ot-ctl command can end: exit code and stdout lines, no answer within
\* 10 s, or the subprocess could not be started.
Exit(rc, out) == [how |-> "exit", rc |-> rc, out |-> out]
TimedOut == [how |-> "timeout"]
SpawnError == [how |-> "error"]

\* _run_ot_ctl: stdout when the command exited 0 (a one-element sequence),
\* None (the empty sequence) on a non-zero exit, a timeout or any exception.
run_ot_ctl(outcome) ==
    IF outcome.how = "exit" /\ outcome.rc = 0 THEN <<outcome.out>> ELSE << >>

\* line.strip().lower() of the first lines ot-ctl state prints.
strip_lower(line) ==
    CASE line = " Detached " -> "detached"
      [] line = "Disabled"   -> "disabled"
      [] OTHER               -> line

\* A plausible slip: only a disabled network is skipped.
network_down_disabled_only(state_val) == state_val = "disabled"

\* if state_val in ("disabled", "detached")
network_down(state_val) == state_val \in {"disabled", "detached"}

\* The Mesh Local Prefix line of the dataset, split at ":" and "/" and with
\* the trailing colons removed; "" for a line that is not the prefix line.
prefix_of(line) ==
    CASE line = "Mesh Local Prefix: fd00::/64" -> "fd00"
      [] OTHER -> ""

\* ml_prefix: the first line that holds "Mesh Local Prefix" decides.
RECURSIVE ml_prefix(_)
ml_prefix(lines) ==
    IF lines = << >> THEN ""
    ELSE IF prefix_of(Head(lines)) # "" THEN prefix_of(Head(lines))
    ELSE ml_prefix(Tail(lines))

\* f"{ml_prefix}:0:ff:fe00:{rloc:04x}": the address of the child with that
\* RLOC16 (children 1..3 are the devices d1..d3).
rloc_address(prefix, rloc) == AllAddresses[rloc]

\* The child table, row by row: a row whose RLOC16 is not a number is left out
\* (0 stands for such a row), as are the header and the rule.
RECURSIVE child_addresses(_, _)
child_addresses(prefix, rows) ==
    IF rows = << >> THEN << >>
    ELSE IF Head(rows) \in DOMAIN AllAddresses
         THEN <<rloc_address(prefix, Head(rows))>>
                \o child_addresses(prefix, Tail(rows))
         ELSE child_addresses(prefix, Tail(rows))

\* _get_thread_addresses: the three commands in turn.  state output with no
\* line makes splitlines()[0] raise IndexError, which nothing catches.
get_thread_addresses(run) ==
    LET state    == run_ot_ctl(run.state)
        dataset  == run_ot_ctl(run.dataset)
        children == run_ot_ctl(run.children)
        none     == [raised |-> FALSE, addresses |-> << >>]
    IN IF state = << >> THEN none
       ELSE IF state[1] = << >> THEN [raised |-> TRUE, addresses |-> << >>]
       ELSE IF network_down(strip_lower(state[1][1])) THEN none
       ELSE IF dataset = << >> THEN none
       ELSE IF ml_prefix(dataset[1]) = "" THEN none
       ELSE IF children = << >> THEN none
       ELSE [raised |-> FALSE,
             addresses |-> child_addresses(ml_prefix(dataset[1]), children[1])]

\* The runs of the three commands.
StateOutcomes ==
    { Exit(1, << >>), TimedOut, SpawnError, Exit(0, << >>),
      Exit(0, <<"leader", "Done">>), Exit(0, <<"disabled", "Done">>),
      Exit(0, <<" Detached ", "Done">>) }
DatasetOutcomes ==
    { Exit(1, << >>), Exit(0, <<"Channel: 15", "Done">>),
      Exit(0, <<"Channel: 15", "Mesh Local Prefix: fd00::/64", "Done">>) }
ChildOutcomes ==
    { TimedOut, Exit(0, <<1, 2>>), Exit(0, <<0, 3>>) }
AdapterRuns ==
    [state : StateOutcomes, dataset : DatasetOutcomes, children : ChildOutcomes]

\* discover up to the for loop, the adapter included.
DiscoverScan(run) ==
    /\ pc = "idle"
    /\ LET got == get_thread_addresses(run)
       IN /\ call' = [op |-> "discover", addresses |-> got.addresses,
                      adapter |-> run]
          /\ pc' = IF got.raised THEN "raised"
                   ELSE IF got.addresses = << >> THEN "returned" ELSE "discover"
          /\ queue' = got.addresses
    /\ before' = DOMAIN reg
    /\ result' = << >>
    /\ tried' = {}
    /\ okIds' = {}
    /\ sent' = << >>
    /\ last' = NoCall
    /\ UNCHANGED <<reg, now, newCount, devices, task, clamped, count>>
    /\ UNCHANGED <<storageErrors, sched, conc, gone, vents, fine>>

AdapterNext ==
    \/ \E d \in ManualDevices : Upsert(d)
    \/ \E run \in AdapterRuns : DiscoverScan(run)
    \/ \E run \in FleetRuns : DiscoverStep(run[1], run[2])
    \/ Done

SpecAdapter == Init /\ [][AdapterNext]_vars

(***************************************************************************)
(* check_rules with its suspension points: the coroutine is suspended only  *)
(* inside the GroupManager call of a matching rule, and that is where       *)
(* add_rule and remove_rule of other tasks can run                          *)
(***************************************************************************)
\* The GroupManager calls that have been started and are not over.
Running(calls) == {k \in DOMAIN calls : ~calls[k].ended}

\* A plausible slip: the rule is handed to asyncio.create_task and the for
\* loop goes on.
loop_resumes_at_once(calls) == TRUE

\* check_rules: await self._execute_rule(rule); the for loop goes on when the
\* call it awaits has returned or raised.
loop_resumes(calls) == Running(calls) = {}

\* Another task may run: no check_rules is in progress, or it is suspended.
Suspended == pc = "tick" /\ Running(gmCalls) # {}

\* await scheduler.check_rules(current_time): for rule in self._rules takes an
\* iterator over the list object self._rules names at that moment.
TickBegin(t) ==
    /\ pc = "idle"
    /\ loop = "none"
    /\ pc' = "tick"
    /\ call' = [op |-> "check_rules", current_time |-> t]
    /\ current' = t
    /\ idx' = 1
    /\ executed' = 0
    /\ gmCalls' = << >>
    /\ iterated' = [items |-> rules, aliased |-> TRUE]
    /\ late' = {}
    /\ result' = << >>
    /\ UNCHANGED <<reg, now, last, sent, newCount, devices, task, clamped, queue,
                   tried, okIds, before, count, storageErrors, rules, running, loop,
                   stopAsked, conc, gone, vents, removed, wall, fired, scans,
                   assigned>>

\* The for loop takes the next rule of the list it iterates: a matching rule's
\* GroupManager call is started; past the end of the list executed is returned.
TickStep ==
    /\ pc = "tick"
    /\ loop_resumes(gmCalls)
    /\ IF idx > Len(iterated.items)
       THEN /\ pc' = "returned"
            /\ result' = <<executed>>
            /\ iterated' = [items |-> << >>, aliased |-> FALSE]
            /\ UNCHANGED <<idx, gmCalls, executed>>
       ELSE LET rule == iterated.items[idx]
            IN /\ idx' = idx + 1
               /\ IF matches_time(rule, current) /\ execute_rule(rule) # << >>
                  THEN /\ gmCalls' = Append(gmCalls,
                            [op |-> execute_rule(rule)[1].op,
                             target |-> execute_rule(rule)[1].target,
                             angle |-> execute_rule(rule)[1].angle,
                             rule |-> rule.name, pos |-> idx,
                             raised |-> FALSE, ended |-> FALSE])
                       /\ UNCHANGED executed
                  ELSE /\ executed' = IF matches_time(rule, current)
                                      THEN executed + 1 ELSE executed
                       /\ UNCHANGED gmCalls
               /\ UNCHANGED <<pc, result, iterated>>
    /\ UNCHANGED <<reg, now, last, sent, newCount, call, devices, task, clamped,
                   queue, tried, okIds, before, count, storageErrors, rules, running,
                   loop, current, stopAsked, conc, gone, vents, removed, late, wall,
                   fired, scans, assigned>>

\* The GroupManager call returns or raises; _execute_rule catches what it
\* raised and check_rules counts the rule.
ExecEnd(k, ok) ==
    /\ pc = "tick"
    /\ k \in Running(gmCalls)
    /\ gmCalls' = [gmCalls EXCEPT ![k].ended = TRUE, ![k].raised = ~ok]
    /\ executed' = executed + 1
    /\ UNCHANGED <<reg, now, last, sent, newCount, hub, storageErrors, rules, running,
                   loop, current, idx, stopAsked, conc, gone, vents, fine>>

\* scheduler.add_rule(rule) by another task: append to the list object
\* self._rules names, which is the one under iteration unless remove_rule
\* has rebound self._rules since the iteration began.
AddRuleLive(rule) ==
    /\ pc = "idle" \/ Suspended
    /\ loop = "none"
    /\ Len(rules) < MaxRules
    /\ rules' = Append(rules, rule)
    /\ iterated' = IF pc = "tick" /\ iterated.aliased
                   THEN [iterated EXCEPT !.items = Append(@, rule)]
                   ELSE iterated
    /\ late' = IF pc = "tick" /\ iterated.aliased
               THEN late \cup {Len(iterated.items) + 1}
               ELSE late
    /\ removed' = removed \ {rule.name}
    /\ UNCHANGED <<reg, now, last, sent, newCount, hub, storageErrors, running, loop,
                   current, idx, executed, gmCalls, stopAsked, conc, gone, vents,
                   wall, fired, scans, assigned>>

\* scheduler.remove_rule(name) by another task: self._rules is bound to a new
\* list; the list under iteration is left as it is.
RemoveRuleLive(name) ==
    /\ pc = "idle" \/ Suspended
    /\ loop = "none"
    /\ rules' = remove_rule(rules, name)
    /\ iterated' = [iterated EXCEPT !.aliased = FALSE]
    /\ removed' = IF Len(remove_rule(rules, name)) < Len(rules)
                  THEN removed \cup {name} ELSE removed
    /\ UNCHANGED <<reg, now, last, sent, newCount, hub, storageErrors, running, loop,
                   current, idx, executed, gmCalls, stopAsked, conc, gone, vents,
                   late, wall, fired, scans, assigned>>

\* The moments check_rules is called at.
TickTimes == {t \in Times : t.hour = 8 /\ t.second = 0}

\* The rules added and removed around these calls.
TickRules == {rule \in RulePool : rule.time.hour = 8 /\ rule.enabled}

TickNext ==
    \/ \E rule \in TickRules : AddRuleLive(rule)
    \/ \E rule \in TickRules : RemoveRuleLive(rule.name)
    \/ \E t \in TickTimes : TickBegin(t)
    \/ TickStep
    \/ \E k \in DOMAIN gmCalls, ok \in BOOLEAN : ExecEnd(k, ok)
    \/ Done

SpecTick == Init /\ [][TickNext]_vars

(***************************************************************************)
(* check_rules over rules whose target_type is any string                   *)
(***************************************************************************)
\* ScheduleRule.target_type is a str field nothing validates: the three values
\* _execute_rule knows, and two it does not.
TypedRules ==
    { ScheduleRule("morning", [hour |-> 8, minute |-> 0, second |-> 0],
                   "bedroom", "room", 135, TRUE),
      ScheduleRule("open_all", [hour |-> 8, minute |-> 0, second |-> 0],
                   "all", "all", 180, TRUE),
      ScheduleRule("close_floor", [hour |-> 8, minute |-> 1, second |-> 0],
                   "2", "floor", 90, TRUE),
      ScheduleRule("one_vent", [hour |-> 8, minute |-> 0, second |-> 0],
                   "d1", "device", 135, TRUE),
      ScheduleRule("upper", [hour |-> 8, minute |-> 1, second |-> 0],
                   "bedroom", "Room", 135, TRUE) }

TypedNext ==
    \/ \E rule \in TypedRules : AddRule(rule)
    \/ \E rule \in TypedRules : RemoveRule(rule.name)
    \/ \E t \in TickTimes : CheckRules(t)
    \/ \E ok \in BOOLEAN : CheckStep(ok)
    \/ Done

SpecTyped == Init /\ [][TypedNext]_vars

(***************************************************************************)
(* Scheduler.run against the wall clock                                     *)
(***************************************************************************)
\* datetime.now().time() at wall seconds after 08:00:00.
time_of(w) ==
    [hour |-> 8 + (w \div 3600), minute |-> (w \div 60) % 60, second |-> w % 60]

\* The minute of the day a time lies in, counted from 08:00.
minute_of(t) == (t.hour - 8) * 60 + t.minute

\* The seconds asyncio.sleep(60) takes.
SleepSeconds == 60

\* run: await asyncio.sleep(60) begins when check_rules has returned.
next_wake(tickAt, doneAt) == doneAt + SleepSeconds

\* The seconds into 08:00 at which run() is started, and the seconds the
\* GroupManager calls of one tick take together.
StartSeconds == {0, 50}
ExecSeconds == {0, 20}

\* check_rules inside one tick: the matching rules in list order.
RECURSIVE due_rules(_, _, _)
due_rules(rs, i, t) ==
    IF i > Len(rs) THEN << >>
    ELSE IF matches_time(rs[i], t)
         THEN <<[rule |-> rs[i].name, pos |-> i, minute |-> minute_of(t)]>>
                \o due_rules(rs, i + 1, t)
         ELSE due_rules(rs, i + 1, t)

\* task = asyncio.create_task(scheduler.run()), up to the while: the loop is
\* running from second s on.
TimedRunBegin(s) ==
    /\ pc = "idle"
    /\ loop = "none"
    /\ running' = TRUE
    /\ loop' = "top"
    /\ stopAsked' = FALSE
    /\ wall' = s
    /\ fired' = [ticks |-> << >>, runs |-> << >>]
    /\ UNCHANGED <<reg, now, last, sent, newCount, hub, storageErrors, rules, current,
                   idx, executed, gmCalls, conc, gone, vents, iterated, removed,
                   late, scans, assigned>>

\* One tick: now = datetime.now().time().replace(second=0, microsecond=0);
\* await self.check_rules(now), whose GroupManager calls take d seconds.
TimedTick(d) ==
    /\ loop = "top"
    /\ running
    /\ wall + d + SleepSeconds <= MaxWall
    /\ LET t   == truncate(time_of(wall))
           due == due_rules(rules, 1, t)
       IN /\ due = << >> => d = 0
          /\ current' = t
          /\ idx' = Len(rules) + 1
          /\ executed' = Len(due)
          /\ gmCalls' = [k \in DOMAIN due |->
                            [op |-> execute_rule(rules[due[k].pos])[1].op,
                             target |-> execute_rule(rules[due[k].pos])[1].target,
                             angle |-> execute_rule(rules[due[k].pos])[1].angle,
                             raised |-> FALSE]]
          /\ fired' = [ticks |-> Append(fired.ticks, wall),
                       runs  |-> fired.runs \o due]
    /\ wall' = wall + d
    /\ loop' = "sleep"
    /\ UNCHANGED <<reg, now, last, sent, newCount, hub, storageErrors, rules, running,
                   stopAsked, conc, gone, vents, iterated, removed, late, scans,
                   assigned>>

\* run: await asyncio.sleep(60) is over.
TimedSleep ==
    /\ loop = "sleep"
    /\ loop' = "top"
    /\ wall' = next_wake(fired.ticks[Len(fired.ticks)], wall)
    /\ UNCHANGED <<reg, now, last, sent, newCount, hub, storageErrors, rules, running,
                   current, idx, executed, gmCalls, stopAsked, conc, gone, vents,
                   iterated, removed, late, fired, scans, assigned>>

TimedNext ==
    \/ \E rule \in TickRules : AddRule(rule)
    \/ \E s \in StartSeconds : TimedRunBegin(s)
    \/ \E d \in ExecSeconds : TimedTick(d)
    \/ TimedSleep

SpecTimed == Init /\ [][TimedNext]_vars

(***************************************************************************)
(* Two discover() tasks on the one event loop                               *)
(***************************************************************************)
\* The locals of a discover() that has its address list: the addresses still
\* to visit, where the body of the for loop stands, device, existing and
\* new_devices.
NewScan(addresses) ==
    [queue |-> addresses,
     at |-> IF addresses = << >> THEN "done" ELSE "probe",
     device |-> {}, existing |-> {}, new_devices |-> << >>]

\* The address lists the two tasks got from ot-ctl.
ScanAddressLists == {l \in AddressLists : Len(l) = 1 \/ l = <<AddrOf("d1"), AddrOf("d2")>>}

\* The ways a probe of these scans can go.
ScanRuns == {<<"ok", <<90, 1>> >>, <<ProbeCalls[1], <<90, 1>> >>}

\* asyncio.gather(discovery.discover(), discovery.discover()), each past its
\* _get_thread_addresses.
ScansStart(listA, listB) ==
    /\ pc = "idle"
    /\ pc' = "scans"
    /\ call' = [op |-> "discover_twice", addresses |-> <<listA, listB>>]
    /\ scans' = <<NewScan(listA), NewScan(listB)>>
    /\ before' = DOMAIN reg
    /\ sent' = << >>
    /\ last' = NoCall
    /\ UNCHANGED <<reg, now, newCount, devices, task, clamped, queue, tried, okIds,
                   result, count, storageErrors, sched, conc, gone, vents, iterated,
                   removed, late, wall, fired, assigned>>

\* Leaving the body of the for loop: the next address, or the return.
next_address(scan) ==
    [scan EXCEPT !.queue = Tail(@),
                 !.at = IF Tail(scan.queue) = << >> THEN "done" ELSE "probe",
                 !.device = {}, !.existing = {}]

\* device = await self._coap.probe_device(addr); if device is None: continue
ScanProbe(i, outcome, pos) ==
    /\ pc = "scans"
    /\ i \in DOMAIN scans
    /\ scans[i].at = "probe"
    /\ LET addr  == Head(scans[i].queue)
           found == probe_device(addr, outcome, pos)
       IN /\ sent' = probe_requests(addr, outcome)
          /\ scans' = [scans EXCEPT ![i] =
                IF found = {} THEN next_address(@)
                ELSE [@ EXCEPT !.device = found, !.at = "lookup"]]
    /\ last' = NoCall
    /\ UNCHANGED <<reg, now, newCount, hub, storageErrors, sched, conc, gone, vents,
                   iterated, removed, late, wall, fired, assigned>>

\* existing = await self._registry.get(device.eui64)
ScanLookup(i) ==
    /\ pc = "scans"
    /\ i \in DOMAIN scans
    /\ scans[i].at = "lookup"
    /\ scans' = [scans EXCEPT ![i] =
            [@ EXCEPT !.existing = UNION {get(reg, d.eui64) : d \in scans[i].device},
                      !.at = "upsert"]]
    /\ sent' = << >>
    /\ last' = NoCall
    /\ UNCHANGED <<reg, now, newCount, hub, storageErrors, sched, conc, gone, vents,
                   iterated, removed, late, wall, fired, assigned>>

\* await self._registry.upsert(device); if existing is None:
\* new_devices.append(device)
ScanUpsert(i) ==
    /\ pc = "scans"
    /\ i \in DOMAIN scans
    /\ scans[i].at = "upsert"
    /\ \E device \in scans[i].device :
        /\ reg' = upsert(reg, device, now)
        /\ last' = [op |-> "upsert", device |-> device]
        /\ scans' = [scans EXCEPT ![i] =
                next_address(IF scans[i].existing = {}
                             THEN [@ EXCEPT !.new_devices = Append(@, device)]
                             ELSE @)]
        /\ newCount' = IF scans[i].existing = {}
                       THEN [newCount EXCEPT ![device.eui64] = Bump(@)]
                       ELSE newCount
    /\ sent' = << >>
    /\ UNCHANGED <<now, hub, storageErrors, sched, conc, gone, vents, iterated,
                   removed, late, wall, fired, assigned>>

\* Both tasks have returned their new_devices.
ScansReturn ==
    /\ pc = "scans"
    /\ \A i \in DOMAIN scans : scans[i].at = "done"
    /\ pc' = "returned"
    /\ result' = [i \in DOMAIN scans |-> scans[i].new_devices]
    /\ scans' = << >>
    /\ sent' = << >>
    /\ last' = NoCall
    /\ UNCHANGED <<reg, now, newCount, call, devices, task, clamped, queue, tried,
                   okIds, before, count, storageErrors, sched, conc, gone, vents,
                   iterated, removed, late, wall, fired, assigned>>

ScansNext ==
    \/ \E id \in Ids : Delete(id)
    \/ \E listA \in ScanAddressLists, listB \in ScanAddressLists :
            ScansStart(listA, listB)
    \/ \E i \in 1..2, run \in ScanRuns : ScanProbe(i, run[1], run[2])
    \/ \E i \in 1..2 : ScanLookup(i)
    \/ \E i \in 1..2 : ScanUpsert(i)
    \/ ScansReturn
    \/ Done

SpecScans == Init /\ [][ScansNext]_vars

(***************************************************************************)
(* Assignments against polls of devices that hold labels of their own       *)
(***************************************************************************)
\* What the device at an address answers to the four GETs, its configuration
\* being the one the vent holds.
LiveReplies(address, outcome, pos, vs) ==
    LET id == DeviceAt(address)
        config == config_of(cbor_loads(cbor_dumps(render_get_config(vs[id]))))
    IN [k \in 1..Len(ProbeCalls) |->
          IF ProbeCalls[k] = outcome THEN NoReply("CoapError")
          ELSE IF k = 3 THEN Reply(config)
          ELSE MeshReplies(address, outcome, pos)[k]]

\* probe_device against devices whose configuration can be set.
probe_live(address, outcome, pos, vs) ==
    probe(address, LiveReplies(address, outcome, pos, vs))

\* VirtualVent.__init__: a vent nobody has configured holds empty labels; d1
\* and d3 hold the labels they were installed with.
Unconfigured ==
    [id \in Ids |->
        IF id = "d2" THEN [Installed[id] EXCEPT !.room = "", !.floor = "", !.name = ""]
        ELSE Installed[id]]

\* One iteration of discover's for loop against these devices.
LiveDiscoverStep(outcome, pos) ==
    /\ pc = "discover"
    /\ queue # << >>
    /\ LET addr  == Head(queue)
           found == probe_live(addr, outcome, pos, vents)
       IN /\ sent' = probe_requests(addr, outcome)
          /\ tried' = tried \cup {addr}
          /\ IF found = {}
             THEN /\ last' = NoCall
                  /\ UNCHANGED <<reg, result, newCount, okIds>>
             ELSE \E device \in found :
                    LET after    == upsert(reg, device, now)
                        existing == discover_existing(reg, after, device.eui64)
                    IN /\ reg' = after
                       /\ last' = [op |-> "upsert", device |-> device]
                       /\ okIds' = okIds \cup {device.eui64}
                       /\ IF existing = {}
                          THEN /\ result' = Append(result, device)
                               /\ newCount' = [newCount EXCEPT
                                                 ![device.eui64] = Bump(@)]
                          ELSE UNCHANGED <<result, newCount>>
    /\ queue' = Tail(queue)
    /\ pc' = IF Tail(queue) = << >> THEN "returned" ELSE "discover"
    /\ UNCHANGED <<now, call, devices, task, clamped, before, count>>
    /\ UNCHANGED <<storageErrors, sched, conc, gone, vents, fine>>

\* One iteration of poll_all's for loop against these devices.
LivePollStep(outcome, pos) ==
    /\ pc = "poll"
    /\ queue # << >>
    /\ LET device == Head(queue)
           found  == probe_live(device.ipv6_address, outcome, pos, vents)
       IN IF poll_skips(device)
          THEN /\ outcome = "ok"
               /\ sent' = << >>
               /\ last' = NoCall
               /\ queue' = Tail(queue)
               /\ pc' = IF Tail(queue) = << >> THEN "returned" ELSE "poll"
               /\ UNCHANGED <<reg, count, tried, okIds>>
          ELSE /\ sent' = probe_requests(device.ipv6_address, outcome)
               /\ tried' = tried \cup {device.eui64}
               /\ queue' = poll_rest(queue, found)
               /\ pc' = IF poll_rest(queue, found) = << >> THEN "returned" ELSE "poll"
               /\ IF found = {}
                  THEN /\ last' = NoCall
                       /\ UNCHANGED <<reg, count, okIds>>
                  ELSE \E updated_ \in found :
                         /\ reg' = upsert(reg, updated_, now)
                         /\ last' = [op |-> "upsert", device |-> updated_]
                         /\ count' = count + 1
                         /\ okIds' = okIds \cup {device.eui64}
    /\ UNCHANGED <<now, newCount, call, devices, task, clamped, before, result>>
    /\ UNCHANGED <<storageErrors, sched, conc, gone, vents, fine>>

\* vent-hub assign EUI64 ROOM FLOOR: an unknown id ends the command; a device
\* with an address is sent set_config(room, floor), a failure of which is
\* only warned about; then update_assignment writes the labels.
CliAssign(eui64, room, floor, ok) ==
    /\ pc = "idle"
    /\ call' = [op |-> "cli_assign", eui64 |-> eui64, room |-> room, floor |-> floor]
    /\ pc' = "returned"
    /\ LET found == get(reg, eui64)
       IN IF found = {}
          THEN /\ ok
               /\ sent' = << >>
               /\ last' = NoCall
               /\ UNCHANGED <<reg, vents, assigned>>
          ELSE \E device \in found :
                 /\ IF device.ipv6_address = ""
                    THEN /\ ok
                         /\ sent' = << >>
                         /\ UNCHANGED vents
                    ELSE LET payload == config_payload(<<room>>, <<floor>>, << >>)
                             id == DeviceAt(device.ipv6_address)
                         IN /\ sent' = <<[code |-> "PUT",
                                          address |-> device.ipv6_address,
                                          path |-> "device/config",
                                          payload |-> payload]>>
                            /\ vents' = IF ok
                                        THEN [vents EXCEPT ![id] =
                                                render_put_config(@,
                                                    cbor_loads(cbor_dumps(payload)))]
                                        ELSE vents
                 /\ reg' = update_assignment(reg, eui64, room, floor)
                 /\ last' = [op |-> "update_assignment", eui64 |-> eui64,
                             room |-> room, floor |-> floor,
                             ret |-> affected(reg, eui64) > 0]
                 /\ assigned' = [x \in DOMAIN assigned \cup {eui64} |->
                                    IF x = eui64 THEN <<room, floor>> ELSE assigned[x]]
    /\ UNCHANGED <<now, newCount, devices, task, clamped, queue, tried, okIds, before,
                   result, count, storageErrors, sched, conc, gone, iterated, removed,
                   late, wall, fired, scans>>

\* The labels vent-hub assign is given.
CliAssignments == {<<"kitchen", "1">>, <<"", "">>}

\* The scans and probes of these runs.
AssignAddressLists == {l \in AddressLists : Len(l) = 1}
AssignRuns == {<<"ok", <<90, 1>> >>, <<ProbeCalls[3], <<90, 1>> >>}

AssignInit ==
    /\ reg = << >>
    /\ now = 0
    /\ last = NoCall
    /\ sent = << >>
    /\ newCount = [id \in Ids |-> 0]
    /\ HubIdle
    /\ storageErrors = {}
    /\ SchedIdle
    /\ ConcIdle
    /\ gone = {}
    /\ vents = Unconfigured
    /\ FineIdle

AssignNext ==
    \/ \E id \in Ids, as \in CliAssignments, ok \in BOOLEAN :
            CliAssign(id, as[1], as[2], ok)
    \/ \E addresses \in AssignAddressLists : DiscoverStart(addresses)
    \/ \E run \in AssignRuns : LiveDiscoverStep(run[1], run[2])
    \/ PollStart
    \/ \E run \in AssignRuns : LivePollStep(run[1], run[2])
    \/ Done

SpecAssign == AssignInit /\ [][AssignNext]_vars

(***************************************************************************)
(* Polls and group sets over records whose stored address has gone stale    *)
(***************************************************************************)
\* Records as the registry can hold them: the fixture's, and a record of d1
\* whose stored address is the one d2 answers at now (the RLOC-based address
\* of a child changes when it attaches again).
StaleDevices ==
    { d \in FixtureDevices : d.eui64 \in {"d1", "d3"} }
    \cup { VentDevice("d1", AddrOf("d2"), RoomOf("d1"), FloorOf("d1"), NameOf("d1"),
                      90, "closed", ProfileOf("d1")) }

\* The ways a probe of these polls can go.
StaleRuns == {<<"ok", <<180, 0>> >>, <<ProbeCalls[2], <<90, 1>> >>}

StaleNext ==
    \/ \E d \in StaleDevices : Upsert(d)
    \/ PollStart
    \/ \E run \in StaleRuns : PollStep(run[1], run[2])
    \/ \E c \in GroupCalls, a \in HubAngles : GroupStart(c, a)
    \/ \E i \in 1..Cardinality(Ids), ok \in BOOLEAN : SetOneSend(i, ok)
    \/ \E i \in 1..Cardinality(Ids) : SetOneWrite(i)
    \/ GroupReturn
    \/ Done

SpecStale == Init /\ [][StaleNext]_vars

(***************************************************************************)
(* Properties                                                              *)
(***************************************************************************)
\* The columns upsert takes from the incoming device whatever is stored.
Replaced(row, d) ==
    /\ row.ipv6_address = d.ipv6_address
    /\ row.angle = d.angle
    /\ row.state = d.state
    /\ row.firmware_version = d.firmware_version
    /\ row.rssi = d.rssi
    /\ row.power_source = d.power_source
    /\ row.poll_period_ms = d.poll_period_ms

\* C1: an upsert on a stored id replaces address, angle, state, firmware
\* version, rssi, power source and poll period by the incoming values and, for
\* each of room, floor and name on its own, keeps the stored value when the
\* incoming one is "" and takes the incoming one otherwise; on an absent id the
\* record is inserted as given.
C1_UpsertMerge ==
    [][last'.op = "upsert" =>
        LET d  == last'.device
            id == d.eui64
        IN /\ DOMAIN reg' = DOMAIN reg \cup {id}
           /\ Replaced(reg'[id], d)
           /\ reg'[id].eui64 = id
           /\ IF id \in DOMAIN reg
              THEN /\ reg'[id].room = IF d.room = "" THEN reg[id].room ELSE d.room
                   /\ reg'[id].floor = IF d.floor = "" THEN reg[id].floor ELSE d.floor
                   /\ reg'[id].name = IF d.name = "" THEN reg[id].name ELSE d.name
              ELSE /\ reg'[id].room = d.room
                   /\ reg'[id].floor = d.floor
                   /\ reg'[id].name = d.name]_vars

\* C1 witness: an upsert with empty room/floor/name has been applied to a record
\* that holds non-empty labels; the labels are still there next to the new angle.
C1_Witness ==
    /\ last.op = "upsert"
    /\ last.device.room = "" /\ last.device.floor = "" /\ last.device.name = ""
    /\ last.device.angle = 120
    /\ reg[last.device.eui64].room = "bedroom"
    /\ reg[last.device.eui64].floor = "2"
    /\ reg[last.device.eui64].name = "bedroom-east"
    /\ reg[last.device.eui64].angle = 120
    /\ reg[last.device.eui64].state = "partial"

GroupOps == {"set_room_angle", "set_floor_angle", "set_all_angle"}

\* A group set has handed its outcome to the caller.
GroupOver == pc \in {"returned", "raised"} /\ call.op \in GroupOps

Failing == {i \in DOMAIN task : task[i].ack = "error"}
ResultIds == {result[i].eui64 : i \in DOMAIN result}

ClampTo(a) == IF a < 90 THEN 90 ELSE IF a > 180 THEN 180 ELSE a

\* C4: whatever angle is asked for, every set_target request of a group set and
\* every update_position it writes carry the one value clamp(angle), in [90,180].
C4_GroupClamped ==
    call.op \in GroupOps =>
        /\ \A i \in DOMAIN task :
              /\ \A k \in DOMAIN task[i].put :
                    /\ task[i].put[k].payload = ClampTo(call.angle)
                    /\ task[i].put[k].payload \in 90..180
              /\ \A k \in DOMAIN task[i].write :
                    /\ task[i].write[k].angle = ClampTo(call.angle)
                    /\ reg[task[i].write[k].eui64].angle \in 90..180
        /\ \A k \in DOMAIN sent : sent[k].payload = ClampTo(call.angle)
        /\ last.op = "update_position" => last.angle = ClampTo(call.angle)

\* C4 witness: a group set asked for 999 has sent 180 to two devices and written
\* 180 for one of them.
C4_Witness ==
    /\ call.op \in GroupOps /\ call.angle = 999
    /\ \E i, j \in DOMAIN task :
          /\ i # j
          /\ task[i].put # << >> /\ task[i].put[1].payload = 180
          /\ task[j].put # << >> /\ task[j].put[1].payload = 180
          /\ task[j].write # << >> /\ task[j].write[1].angle = 180

\* C5: set_target sends max(90, min(180, angle)) in its PUT to vent/target for
\* every integer asked for; no unclamped value is sent.
C5_SetTargetClamped ==
    call.op = "set_target" =>
        /\ Len(sent) = 1
        /\ sent[1].code = "PUT" /\ sent[1].path = "vent/target"
        /\ sent[1].address = call.address
        /\ sent[1].payload = ClampTo(call.angle)
        /\ sent[1].payload \in 90..180

\* C5 witness: set_target(999) has sent 180.
C5_Witness ==
    /\ call.op = "set_target" /\ call.angle = 999
    /\ sent # << >> /\ sent[1].payload = 180

WithAddress(devs) ==
    {devs[i].eui64 : i \in {j \in DOMAIN devs : devs[j].ipv6_address # ""}}

\* C7: poll_all probes every record that has an address and none that has not;
\* a failed probe does not keep the later devices from being probed; the count
\* returned is the number of devices probed with success, each of them upserted.
C7_PollAll ==
    /\ [](call.op = "poll_all" =>
            /\ count = Cardinality(okIds)
            /\ okIds \subseteq tried
            /\ tried \subseteq WithAddress(devices)
            /\ pc = "returned" => tried = WithAddress(devices))
    /\ [][pc = "poll" =>
            /\ okIds' # okIds <=> count' = count + 1
            /\ okIds' = okIds => count' = count /\ reg' = reg
            /\ count' # count =>
                  /\ last'.op = "upsert"
                  /\ last'.device.eui64 \in okIds' \ okIds
                  /\ last'.device.ipv6_address = Head(queue).ipv6_address
                  /\ reg'[last'.device.eui64].angle = last'.device.angle
                  /\ reg'[last'.device.eui64].state = last'.device.state
                  /\ reg'[last'.device.eui64].last_seen = now]_vars

\* C7 witness: a poll over three records has returned 1: one record has no
\* address, one probe failed, one succeeded.
C7_Witness ==
    /\ pc = "returned" /\ call.op = "poll_all"
    /\ Len(devices) = 3
    /\ Cardinality(tried) = 2
    /\ count = 1

\* C8: no request is ever sent to the empty address, and a record whose address
\* is empty leaves the registry through an explicit delete only.
C8_NoAddressSkipped ==
    /\ [](\A k \in DOMAIN sent : sent[k].address # "")
    /\ [](\A i \in DOMAIN task : devices[i].ipv6_address = "" => task[i].put = << >>)
    /\ [][\A id \in DOMAIN reg :
            (reg[id].ipv6_address = "" /\ id \notin DOMAIN reg') =>
                (last'.op = "delete" /\ last'.eui64 = id)]_vars

\* C8 witness: a group set over a record without an address has returned: the
\* record was skipped, is still stored, and another device was commanded.
C8_Witness ==
    /\ pc = "returned" /\ call.op \in GroupOps
    /\ result # << >>
    /\ \E i \in DOMAIN task :
          /\ task[i].st = "skipped"
          /\ devices[i].eui64 \in DOMAIN reg
          /\ reg[devices[i].eui64].ipv6_address = ""

\* The stored ids a group call selects.
Matching(r, c) ==
    {id \in DOMAIN r :
        \/ c.op = "set_all_angle"
        \/ c.op = "set_room_angle" /\ r[id].room = c.target
        \/ c.op = "set_floor_angle" /\ r[id].floor = c.target}

\* C9: a group set whose selector matches no stored device returns [], raises
\* nothing, creates no task, sends no request and writes nothing.
C9_EmptySelector ==
    (call.op \in GroupOps /\ Matching(reg, call) = {}) =>
        /\ pc = "returned"
        /\ result = << >>
        /\ devices = << >> /\ task = << >>
        /\ sent = << >>
        /\ last = NoCall

\* C9 witness: set_room_angle on a room no stored device is in has returned,
\* with devices stored.
C9_Witness ==
    /\ pc = "returned"
    /\ call.op = "set_room_angle" /\ call.target = "kitchen"
    /\ Cardinality(DOMAIN reg) = 3

\* C10: update_position(id, clamp(angle), "moving") is written for a device
\* only after its set_target exchange was acknowledged, never for a device whose
\* exchange failed or that has no address, and every device of the returned
\* list has its in-memory angle at the clamped value.
C10_WriteAfterAck ==
    /\ [](call.op \in GroupOps =>
            /\ \A i \in DOMAIN task :
                  /\ task[i].ack # "ack" => task[i].write = << >>
                  /\ task[i].st = "done" =>
                        task[i].write =
                            <<[op |-> "update_position", eui64 |-> devices[i].eui64,
                               angle |-> ClampTo(call.angle), state |-> "moving"]>>
            /\ \A k \in DOMAIN result : result[k].angle = ClampTo(call.angle))
    /\ [][(pc = "group" /\ pc' = "group") =>
            \A i \in DOMAIN task :
                task'[i].write # task[i].write =>
                    /\ task[i].ack = "ack"
                    /\ task[i].put # << >>
                    /\ reg'[devices[i].eui64].angle = ClampTo(call.angle)
                    /\ reg'[devices[i].eui64].state = "moving"]_vars

\* C10 witness: a group set has returned a device it wrote as moving at 180,
\* next to a device whose exchange failed and that was not written.
C10_Witness ==
    /\ pc = "returned" /\ call.op \in GroupOps /\ call.angle = 999
    /\ \E i, j \in DOMAIN task :
          /\ task[i].ack = "ack" /\ task[i].write # << >>
          /\ reg[devices[i].eui64].angle = 180
          /\ reg[devices[i].eui64].state = "moving"
          /\ task[j].ack = "error" /\ task[j].write = << >>
    /\ Len(result) = 1 /\ result[1].angle = 180

\* C11: the fan-out is a join: when a group set hands its outcome to the caller
\* every per-device task has run to its end, with its registry write-back made
\* (done), or has failed, or was skipped for want of an address; none is still
\* pending or between acknowledgement and write-back, and no task moves on
\* after the return.
C11_FanOutJoins ==
    /\ [](GroupOver =>
            \A i \in DOMAIN task :
                /\ task[i].st \in {"done", "failed", "skipped"}
                /\ task[i].st = "done" => Len(task[i].write) = 1
                /\ task[i].st = "failed" => task[i].ack = "error")
    /\ [][GroupOver => (task' = task \/ pc' = "idle")]_vars

\* C11 witness: a group set over three devices has returned with one exchange
\* failed and the two other tasks run to the end of their write-back.
C11_Witness ==
    /\ GroupOver
    /\ Len(task) = 3
    /\ Cardinality({i \in DOMAIN task : task[i].st = "failed"}) = 1
    /\ Cardinality({i \in DOMAIN task : task[i].st = "done"
                                        /\ Len(task[i].write) = 1}) = 2

\* C12: a registry write that fails inside discover, poll_all or a group set
\* is never swallowed: an operation in which one failed ends by raising to its
\* caller, not by returning a count or a list that leaves the device out.
C12_StorageFailurePropagates ==
    (pc \in {"returned", "raised"} /\ storageErrors # {}) => pc = "raised"

\* C12 witness: poll_all has returned 1 to its caller although the upsert of
\* another device it probed with success raised.
C12_Witness ==
    /\ pc = "returned" /\ call.op = "poll_all"
    /\ count = 1
    /\ Cardinality(storageErrors) = 1
    /\ storageErrors \cap okIds = {}

\* The claims' own reading of "matches": enabled, same hour, same minute.
Due(rule, t) ==
    rule.enabled /\ rule.time.hour = t.hour /\ rule.time.minute = t.minute

\* The one GroupManager call a rule stands for, by targetType.
CallFor(rule) ==
    [op |-> CASE rule.target_type = "all" -> "set_all_angle"
              [] rule.target_type = "room" -> "set_room_angle"
              [] OTHER -> "set_floor_angle",
     target |-> IF rule.target_type = "all" THEN "" ELSE rule.target,
     angle |-> rule.angle]

\* The calls the first n rules stand for at time t, in rule order.
RECURSIVE CallsDue(_, _)
CallsDue(n, t) ==
    IF n = 0 THEN << >>
    ELSE CallsDue(n - 1, t)
         \o (IF Due(rules[n], t) THEN <<CallFor(rules[n])>> ELSE << >>)

\* The GroupManager calls made so far, without how they ended.
CallsMade ==
    [k \in DOMAIN gmCalls |->
        [op |-> gmCalls[k].op, target |-> gmCalls[k].target,
         angle |-> gmCalls[k].angle]]

\* check_rules is running or has just ended, called directly or by a tick of run().
Checking ==
    \/ pc \in {"check", "returned"} /\ call.op = "check_rules"
    \/ loop \in {"tick", "sleep"}

\* C13: check_rules(t) executes a rule iff it is enabled and its hour and minute
\* equal those of t, seconds ignored: the GroupManager calls made after the
\* first n rules are exactly one call per such rule, in rule order, selected by
\* targetType with the rule's own target and angle; a rule of another minute or
\* a disabled rule adds no call; the count returned is the number of such rules.
C13_CheckRules ==
    Checking =>
        /\ CallsMade = CallsDue(idx - 1, current)
        /\ executed = Len(CallsDue(idx - 1, current))
        /\ pc = "returned" =>
              /\ idx = Len(rules) + 1
              /\ result = <<Len(CallsDue(Len(rules), current))>>

\* C13 witness: the 08:00 bedroom rule checked at 08:00:30 next to an 08:01
\* rule: one call, set_room_angle("bedroom", 135), and 1 returned.
C13_Witness ==
    /\ pc = "returned" /\ call.op = "check_rules"
    /\ current = [hour |-> 8, minute |-> 0, second |-> 30]
    /\ Len(rules) = 2
    /\ rules[1].name = "morning" /\ rules[2].name = "close_floor"
    /\ CallsMade = <<[op |-> "set_room_angle", target |-> "bedroom", angle |-> 135]>>
    /\ result = <<1>>

\* C14: a GroupManager call that raises for a matching rule neither leaves
\* check_rules nor stops the rules after it: check_rules never ends by raising,
\* a tick of run() never dies of it, and the count returned is the number of
\* matching rules, each attempted once, however their calls ended.
C14_FailureCounted ==
    /\ call.op = "check_rules" => pc # "raised"
    /\ loop # "crashed"
    /\ (pc = "returned" /\ call.op = "check_rules") =>
          /\ result = <<Cardinality({n \in DOMAIN rules : Due(rules[n], current)})>>
          /\ Len(gmCalls) = result[1]

\* C14 witness: two rules matched, the call of the first raised, the second was
\* executed all the same and 2 was returned.
C14_Witness ==
    /\ pc = "returned" /\ call.op = "check_rules"
    /\ Len(gmCalls) = 2
    /\ gmCalls[1].raised /\ ~gmCalls[2].raised
    /\ result = <<2>>

\* C15: once stop() has been called on a scheduler whose run task exists, also
\* when the task has not executed its first statement yet, the loop leaves at
\* the top of its next iteration; and a stop() during a tick leaves the tick
\* to run to its end.
C15_StopObserved ==
    /\ [][(stopAsked /\ loop = "top" /\ loop' # "top") => loop' = "exited"]_vars
    /\ [][(loop = "tick" /\ running /\ ~running') =>
            (loop' = "tick" /\ idx' = idx /\ gmCalls' = gmCalls)]_vars

\* C15 witness: stop() was called on the created task, and the loop is in a
\* tick with running true again.
C15_Witness ==
    /\ stopAsked
    /\ running
    /\ loop = "tick"

\* C18: probe_device never raises; when any of its four sub-calls fails or
\* answers with a record it cannot read it returns None, never a partly filled
\* device; it returns a device only when all four answered, and that device
\* carries the probed address, the id of the identity reply and the fields of
\* the four replies.
C18_ProbeAllOrNothing ==
    call.op = "probe_device" =>
        LET replies == call.replies
            allOk == \A k \in DOMAIN replies : replies[k].status = "ok"
        IN /\ pc = "returned"
           /\ ~allOk => result = << >>
           /\ allOk =>
                 /\ Len(result) = 1
                 /\ result[1].ipv6_address = call.address
                 /\ result[1].eui64 = replies[1].data.eui64
                 /\ result[1].firmware_version = replies[1].data.firmware_version
                 /\ result[1].angle = replies[2].data[1]
                 /\ result[1].room = replies[3].data.room
                 /\ result[1].floor = replies[3].data.floor
                 /\ result[1].name = replies[3].data.name
                 /\ result[1].rssi = replies[4].data.rssi
                 /\ result[1].poll_period_ms = replies[4].data.poll_period_ms

\* C18 witness: identity, position and config answered, health came back
\* unreadable: four requests were sent and None is returned.
C18_Witness ==
    /\ pc = "returned" /\ call.op = "probe_device"
    /\ call.replies[1].status = "ok" /\ call.replies[2].status = "ok"
    /\ call.replies[3].status = "ok" /\ call.replies[4].status = "malformed"
    /\ Len(sent) = 4
    /\ result = << >>

C17_ClosedIffNinety ==
    \A id \in DOMAIN reg :
        reg[id].state # "moving" => (reg[id].state = "closed" <=> reg[id].angle = 90)

\* C17 witness: the upsert of a probe result has stored a record that is closed
\* at 135.
C17_Witness ==
    /\ last.op = "upsert"
    /\ last.device.eui64 \in DOMAIN reg
    /\ reg[last.device.eui64].angle = 135
    /\ reg[last.device.eui64].state = "closed"

\* C20: the registry holds at most one record per id and no record changes its
\* id: get(id) gives not-found or one record with that id, list_all holds every
\* stored record once with no id twice, no step changes the id of a record that
\* stays, and update_assignment and update_position add no record.
C20_OneRecordPerId ==
    /\ [](\A id \in Ids :
            /\ Cardinality(get(reg, id)) <= 1
            /\ \A row \in get(reg, id) : row.eui64 = id
            /\ id \notin DOMAIN reg => get(reg, id) = {})
    /\ [](LET rows == list_all(reg)
          IN /\ Len(rows) = Cardinality(DOMAIN reg)
             /\ \A i, j \in DOMAIN rows : rows[i].eui64 = rows[j].eui64 => i = j)
    /\ [][\A id \in DOMAIN reg \cap DOMAIN reg' : reg'[id].eui64 = reg[id].eui64]_vars
    /\ [][last'.op \in {"update_assignment", "update_position"} =>
            DOMAIN reg' = DOMAIN reg]_vars

\* C20 witness: three records are stored after an upsert over a record that
\* had been written by update_position and update_assignment; get gives each
\* by its id.
C20_Witness ==
    /\ Cardinality(DOMAIN reg) = 3
    /\ last.op = "upsert"
    /\ \E id \in DOMAIN reg : reg[id].room = "kitchen" /\ reg[id].state = "moving"
    /\ \A id \in Ids : \E row \in get(reg, id) : row.eui64 = id

\* The registry after the two upserts one after the other, first then second.
InOrder(first, second) ==
    upsert(upsert(reg0, first.device, first.t), second.device, second.t)

\* C19: when two upserts run at once, the registry they leave is the one that
\* the two upserts, applied with merge semantics in one of the two orders, give
\* (no write lost, no row mixed from both); when their ids differ each row is
\* the one its own upsert alone gives, and every other row is untouched.
C19_ConcurrentUpserts ==
    (pc = "returned" /\ call.op = "concurrent_upserts") =>
        LET A == writers[1]
            B == writers[2]
        IN /\ reg \in {InOrder(A, B), InOrder(B, A)}
           /\ A.device.eui64 # B.device.eui64 =>
                /\ reg[A.device.eui64] = upsert(reg0, A.device, A.t)[A.device.eui64]
                /\ reg[B.device.eui64] = upsert(reg0, B.device, B.t)[B.device.eui64]
           /\ \A id \in DOMAIN reg \ {A.device.eui64, B.device.eui64} :
                id \in DOMAIN reg0 /\ reg[id] = reg0[id]

\* C19 witness: two upserts to d1, one with a room and one without, read the
\* clock at different times, ran in the order opposite to their clock reads
\* over a record that had labels, and both returned.
C19_Witness ==
    /\ pc = "returned" /\ call.op = "concurrent_upserts"
    /\ writers[1].device.eui64 = "d1" /\ writers[2].device.eui64 = "d1"
    /\ writers[1].device.room = "kitchen" /\ writers[2].device.room = ""
    /\ writers[1].t < writers[2].t
    /\ "d1" \in DOMAIN reg0
    /\ reg = InOrder(writers[2], writers[1])
    /\ reg # InOrder(writers[1], writers[2])

\* The rows other than the one of eui64 are the same before and after.
OthersKept(r, rAfter, eui64) ==
    /\ DOMAIN rAfter \ {eui64} = DOMAIN r \ {eui64}
    /\ \A x \in DOMAIN r \ {eui64} : rAfter[x] = r[x]

\* C21: update_assignment on a stored id returns true, sets room and floor of
\* that record to the given values, and leaves its angle, state, address, name,
\* last_seen (and device profile) and every other record as they were.
C21_UpdateAssignment ==
    [][(last'.op = "update_assignment" /\ last'.eui64 \in DOMAIN reg) =>
        LET id == last'.eui64
        IN /\ last'.ret
           /\ id \in DOMAIN reg'
           /\ reg'[id].room = last'.room
           /\ reg'[id].floor = last'.floor
           /\ reg'[id].eui64 = id
           /\ reg'[id].angle = reg[id].angle
           /\ reg'[id].state = reg[id].state
           /\ reg'[id].ipv6_address = reg[id].ipv6_address
           /\ reg'[id].name = reg[id].name
           /\ reg'[id].last_seen = reg[id].last_seen
           /\ reg'[id].firmware_version = reg[id].firmware_version
           /\ reg'[id].rssi = reg[id].rssi
           /\ reg'[id].power_source = reg[id].power_source
           /\ reg'[id].poll_period_ms = reg[id].poll_period_ms
           /\ OthersKept(reg, reg', id)]_vars

\* C21 witness: update_assignment(d1, "kitchen", "") returned true on a record
\* that was in the bedroom on floor 2, at 180 and moving, seen before the clock moved, with
\* another record stored; the record has floor "" and is still at 180, moving.
C21_Witness ==
    /\ last.op = "update_assignment" /\ last.ret
    /\ last.room = "kitchen" /\ last.floor = ""
    /\ reg[last.eui64].room = "kitchen" /\ reg[last.eui64].floor = ""
    /\ reg[last.eui64].angle = 180 /\ reg[last.eui64].state = "moving"
    /\ reg[last.eui64].name = "bedroom-east"
    /\ reg[last.eui64].last_seen < now
    /\ Cardinality(DOMAIN reg) > 1

\* C22: update_assignment, update_position and delete with an id that is not
\* stored return false and leave the registry as it was.
C22_UnknownId ==
    [][(last'.op \in {"update_assignment", "update_position", "delete"}
            /\ last'.eui64 \notin DOMAIN reg) =>
        (~last'.ret /\ reg' = reg)]_vars

\* C22 witness: a call has just returned false for an id that is not stored
\* while other records are.
C22_Witness ==
    /\ last.op \in {"update_assignment", "update_position", "delete"}
    /\ ~last.ret
    /\ last.eui64 \notin DOMAIN reg
    /\ DOMAIN reg # {}

\* C23: update_position on a stored id returns true; get(id) then reports the
\* given angle and state, with room, floor, name and address of the record and
\* every other record as they were.
C23_UpdatePosition ==
    [][(last'.op = "update_position" /\ last'.eui64 \in DOMAIN reg) =>
        LET id == last'.eui64
        IN /\ last'.ret
           /\ get(reg', id) # {}
           /\ \A row \in get(reg', id) :
                /\ row.angle = last'.angle
                /\ row.state = last'.state
                /\ row.room = reg[id].room
                /\ row.floor = reg[id].floor
                /\ row.name = reg[id].name
                /\ row.ipv6_address = reg[id].ipv6_address
           /\ OthersKept(reg, reg', id)]_vars

\* C23 witness: update_position(d1, 180, "moving") returned true on a record
\* with an address and assigned labels; another record is stored closed at 90.
C23_Witness ==
    /\ last.op = "update_position" /\ last.ret
    /\ last.eui64 = "d1"
    /\ reg["d1"].angle = 180 /\ reg["d1"].state = "moving"
    /\ reg["d1"].ipv6_address = AddrOf("d1")
    /\ reg["d1"].room = "kitchen"
    /\ \E x \in DOMAIN reg \ {"d1"} : reg[x].angle = 90 /\ reg[x].state = "closed"

\* The set of the elements of a sequence.
Range(seq) == {seq[i] : i \in DOMAIN seq}

\* C24: delete on a stored id returns true; afterwards get(id) is not-found and
\* list_all holds every other record as it was, one record fewer; an upsert of
\* an id that is not stored (deleted before or never there) stores the record
\* as given, with its own labels only.
C24_Delete ==
    /\ [][(last'.op = "delete" /\ last'.eui64 \in DOMAIN reg) =>
            LET id == last'.eui64
            IN /\ last'.ret
               /\ get(reg', id) = {}
               /\ Len(list_all(reg')) = Len(list_all(reg)) - 1
               /\ Range(list_all(reg')) = Range(list_all(reg)) \ {reg[id]}
               /\ OthersKept(reg, reg', id)]_vars
    /\ [][(last'.op = "upsert" /\ last'.device.eui64 \notin DOMAIN reg) =>
            LET d == last'.device
            IN /\ get(reg', d.eui64) = {[d EXCEPT !.last_seen = now]}
               /\ OthersKept(reg, reg', d.eui64)]_vars

\* C24 witness: d1 was stored with a room and deleted; an upsert of d1 without
\* labels has just stored it with no room, floor or name, next to other records.
C24_Witness ==
    /\ "d1" \in gone
    /\ last.op = "upsert" /\ last.device.eui64 = "d1"
    /\ last.device.room = ""
    /\ reg["d1"].room = "" /\ reg["d1"].floor = "" /\ reg["d1"].name = ""
    /\ Cardinality(DOMAIN reg) > 1

\* (floor, room, name) of a before or equal to that of b, column by column.
KeyNotAfter(a, b) ==
    \/ Rank(a.floor) < Rank(b.floor)
    \/ /\ a.floor = b.floor
       /\ \/ Rank(a.room) < Rank(b.room)
          \/ a.room = b.room /\ Rank(a.name) <= Rank(b.name)

\* A list of labels is in ascending order with no label twice.
Ascending(labels) ==
    \A i, j \in DOMAIN labels : i < j => Rank(labels[i]) < Rank(labels[j])

\* C25: list_all holds every stored record once, ordered by (floor, room, name);
\* list_by_room and list_by_floor hold exactly the records whose room (floor) is
\* the argument; get_rooms and get_floors are the distinct non-empty rooms
\* (floors) of the stored records, ascending, with no duplicate and no "".
C25_Queries ==
    LET rows == {reg[x] : x \in DOMAIN reg}
        all == list_all(reg)
        rooms == get_rooms(reg)
        floors == get_floors(reg)
    IN /\ Range(all) = rows
       /\ Len(all) = Cardinality(DOMAIN reg)
       /\ \A i, j \in DOMAIN all : i < j => KeyNotAfter(all[i], all[j])
       /\ \A label \in {LabelOrder[i] : i \in DOMAIN LabelOrder} :
            /\ Range(list_by_room(reg, label)) = {row \in rows : row.room = label}
            /\ Len(list_by_room(reg, label)) =
                    Cardinality({x \in DOMAIN reg : reg[x].room = label})
            /\ Range(list_by_floor(reg, label)) = {row \in rows : row.floor = label}
            /\ Len(list_by_floor(reg, label)) =
                    Cardinality({x \in DOMAIN reg : reg[x].floor = label})
       /\ Range(rooms) = {row.room : row \in rows} \ {""}
       /\ Ascending(rooms)
       /\ Range(floors) = {row.floor : row \in rows} \ {""}
       /\ Ascending(floors)

\* C25 witness: three records are stored, two of them in the kitchen with no
\* floor and d3 in the living room on floor 1; the kitchen is listed once, the
\* empty floor is not listed, and d3 comes last in list_all.
C25_Witness ==
    /\ Cardinality(DOMAIN reg) = 3
    /\ Len(list_by_room(reg, "kitchen")) = 2
    /\ Len(list_by_floor(reg, "")) = 2
    /\ get_rooms(reg) = <<"kitchen", "living-room">>
    /\ get_floors(reg) = <<"1">>
    /\ list_all(reg)[3].eui64 = "d3"

\* C26: no two rules of the scheduler's rule set have the same name, after any
\* sequence of add_rule and remove_rule (so that remove_rule takes out at most
\* one rule).
C26_UniqueNames ==
    \A i, j \in DOMAIN rules : rules[i].name = rules[j].name => i = j

\* C26 witness: add_rule was called twice with a rule named morning; the set
\* holds both, and remove_rule("morning") takes both out.
C26_Witness ==
    /\ Len(rules) = 2
    /\ rules[1].name = "morning" /\ rules[2].name = "morning"
    /\ Len(remove_rule(rules, "morning")) = Len(rules) - 2

\* The value a parameter of set_config leaves in a field that held prior.
Chosen(arg, prior) == IF arg = << >> THEN prior ELSE arg[1]

\* C27: get_config right after set_config on the same responsive device returns
\* the room, floor and name that were set; a parameter left at None leaves the
\* value the device had before.
C27_ConfigRoundTrip ==
    (/\ pc = "returned" /\ call.op = "get_config"
     /\ last.op = "set_config" /\ last.address = call.address) =>
        /\ result[1].room = Chosen(last.room, last.prior.room)
        /\ result[1].floor = Chosen(last.floor, last.prior.floor)
        /\ result[1].name = Chosen(last.name, last.prior.name)

\* C27 witness: set_config(room = "kitchen", name = "kitchen-main") with floor
\* left at None on a device installed on floor 2, then get_config: kitchen,
\* floor 2, kitchen-main.
C27_Witness ==
    /\ pc = "returned" /\ call.op = "get_config"
    /\ last.op = "set_config" /\ last.address = call.address
    /\ last.room = <<"kitchen">> /\ last.floor = << >>
    /\ last.name = <<"kitchen-main">>
    /\ last.prior.room = "bedroom"
    /\ result[1] = [room |-> "kitchen", floor |-> "2", name |-> "kitchen-main"]

\* A group set against the simulator has returned to its caller.
PeerGroupOver == pc = "returned" /\ call.op \in GroupOps

\* The device-side angle changes only on devices the call's selector lists.
OutsideKept ==
    [][\A id \in Ids :
          vents'[id].angle # vents[id].angle =>
              (call.op \in GroupOps /\ id \in Matching(reg, call))]_vars

CallOver == pc \in {"returned", "raised"} /\ call.op \in ClientOps

\* C29: each client call sends exactly one request, the one of its method and
\* path to the address it was given, also when the exchange fails; an exchange
\* that fails in transport or comes back with an error code makes the call
\* raise, with no value returned.
C29_OneRequestNoRetry ==
    CallOver =>
        /\ Len(sent) = 1
        /\ sent[1] = request_of(call.op, call.address)
        /\ (call.response.kind = "transport_error" \/ ~call.response.successful) =>
                (pc = "raised" /\ result = << >>)

\* C29 witness: get_identity got a response with an error code; the call
\* raised after its one request.
C29_Witness ==
    /\ CallOver /\ call.op = "get_identity"
    /\ call.response = ErrorCode
    /\ pc = "raised"
    /\ Len(sent) = 1 /\ sent[1].path = "device/identity"

\* The call got a successful response whose map lacks key k.
Omitted(op, k) ==
    /\ CallOver /\ call.op = op
    /\ call.response.kind = "response" /\ call.response.successful
    /\ k \notin DOMAIN call.response.data

\* C30: a successful response that omits an optional field gives the call its
\* default rather than a failure: position without angle gives 90, without
\* state code closed, health without power-source code usb, config without
\* room, floor or name the empty string for that field.
C30_DefaultsForOmitted ==
    /\ Omitted("get_position", 0) =>
            (pc = "returned" /\ \A v \in {result[i] : i \in DOMAIN result} : v.angle = 90)
    /\ Omitted("get_position", 1) =>
            (pc = "returned"
             /\ \A v \in {result[i] : i \in DOMAIN result} : v.state = "closed")
    /\ Omitted("get_health", 2) =>
            (pc = "returned"
             /\ \A v \in {result[i] : i \in DOMAIN result} : v.power_source = "usb")
    /\ Omitted("get_config", 0) => (pc = "returned" /\ result[1].room = "")
    /\ Omitted("get_config", 1) => (pc = "returned" /\ result[1].floor = "")
    /\ Omitted("get_config", 2) => (pc = "returned" /\ result[1].name = "")

\* C30 witness: get_position got a successful response with the angle and no
\* state code, and raised.
C30_Witness ==
    /\ Omitted("get_position", 1)
    /\ 0 \in DOMAIN call.response.data
    /\ pc = "raised" /\ result = << >>

\* C31: every upsert stores the time of the call as last_seen, whatever
\* last_seen the incoming device carries, and update_position stores the time
\* of its call; the clock never goes back, so the last_seen of a record that
\* stays stored never moves backwards.
C31_LastSeenRefreshed ==
    [][/\ now' >= now
       /\ last'.op = "upsert" => reg'[last'.device.eui64].last_seen = now
       /\ (last'.op = "update_position" /\ last'.eui64 \in DOMAIN reg) =>
            reg'[last'.eui64].last_seen = now
       /\ \A id \in DOMAIN reg \cap DOMAIN reg' :
            reg'[id].last_seen >= reg[id].last_seen]_vars

\* C31 witness: d1 was stored at a later time than 0 and an upsert whose
\* device carries last_seen 0 has just been stored over it; the record has
\* the time of the call.
C31_Witness ==
    /\ last.op = "upsert" /\ last.device.eui64 = "d1"
    /\ last.device.last_seen = 0
    /\ now > 0
    /\ reg["d1"].last_seen = now
    /\ reg["d1"].angle = 135

\* The angles of the stored records a selector matches.
AnglesOf(S) == {reg[x].angle : x \in S}

\* C32: get_room_summary and get_floor_summary send no request and leave the
\* registry as it was; device_count is the number of stored records with the
\* room (the floor); the room summary's average_angle is 90 when no record
\* matches and otherwise lies between the least and the greatest angle of the
\* matching records.
C32_Summaries ==
    /\ [][(pc = "idle" /\ call'.op \in {"get_room_summary", "get_floor_summary"})
            => (reg' = reg /\ sent' = << >> /\ last' = NoCall)]_vars
    /\ [](pc = "returned" /\ call.op = "get_room_summary" =>
            LET S == {x \in DOMAIN reg : reg[x].room = call.selector}
            IN /\ result[1].device_count = Cardinality(S)
               /\ S = {} => result[1].average_angle = 90
               /\ S # {} =>
                    /\ \E a \in AnglesOf(S) : a <= result[1].average_angle
                    /\ \E a \in AnglesOf(S) : a >= result[1].average_angle
                    /\ \A a \in AnglesOf(S) :
                         (\A b \in AnglesOf(S) : a <= b)
                            => a <= result[1].average_angle
                    /\ \A a \in AnglesOf(S) :
                         (\A b \in AnglesOf(S) : a >= b)
                            => a >= result[1].average_angle)
    /\ [](pc = "returned" /\ call.op = "get_floor_summary" =>
            result[1].device_count =
                Cardinality({x \in DOMAIN reg : reg[x].floor = call.selector}))

\* C32 witness: with 90, 180 and 135 stored on floors "2", "2" and "1",
\* get_floor_summary("2") has returned device_count 2.
C32_Witness ==
    /\ pc = "returned" /\ call.op = "get_floor_summary" /\ call.selector = "2"
    /\ DOMAIN reg = Ids
    /\ reg["d1"].angle = 90 /\ reg["d2"].angle = 180 /\ reg["d3"].angle = 135
    /\ reg["d1"].floor = "2" /\ reg["d2"].floor = "2" /\ reg["d3"].floor = "1"
    /\ result[1].device_count = 2

\* The command did not succeed: non-zero exit, timeout, or not started.
CommandFailed(outcome) == ~(outcome.how = "exit" /\ outcome.rc = 0)

\* The adapter failed or reported a network that is down: the state command
\* failed or printed disabled / detached, or a later command that was run
\* failed or gave no mesh-local prefix.
AdapterDown(run) ==
    \/ CommandFailed(run.state)
    \/ /\ run.state.out # << >>
       /\ \/ strip_lower(run.state.out[1]) \in {"disabled", "detached"}
          \/ CommandFailed(run.dataset)
          \/ \A i \in DOMAIN run.dataset.out :
                run.dataset.out[i] # "Mesh Local Prefix: fd00::/64"
          \/ CommandFailed(run.children)

C34_InSequence ==
    [][Len(gmCalls') > Len(gmCalls) =>
        \A k \in DOMAIN gmCalls :
            /\ gmCalls[k].ended
            /\ gmCalls[k].pos < gmCalls'[Len(gmCalls')].pos]_vars

\* C34 witness: two rules matched 08:00; the call of the first one raised and
\* is over, the call of the second one is running.
C34_Witness ==
    /\ pc = "tick"
    /\ Len(gmCalls) = 2
    /\ gmCalls[1].ended /\ gmCalls[1].raised /\ gmCalls[1].rule = "morning"
    /\ ~gmCalls[2].ended /\ gmCalls[2].rule = "open_all"

\* C36: no GroupManager call is started for a rule whose name remove_rule has
\* returned true for (and that was not added again), also when remove_rule ran
\* while check_rules was suspended in an earlier rule's call; and no call is
\* started in a check_rules for a rule that add_rule appended while that
\* check_rules was suspended.
C36_RemovedNeverRuns ==
    [][Len(gmCalls') > Len(gmCalls) =>
        /\ gmCalls'[Len(gmCalls')].rule \notin removed
        /\ gmCalls'[Len(gmCalls')].pos \notin late]_vars

\* C36 witness: remove_rule("open_all") returned true while check_rules was
\* suspended in the call of the rule before it, and the call for open_all
\* is running all the same.
C36_Witness ==
    /\ pc = "tick"
    /\ "open_all" \in removed
    /\ \A i \in DOMAIN rules : rules[i].name # "open_all"
    /\ Len(gmCalls) = 2
    /\ gmCalls[1].ended
    /\ gmCalls[2].rule = "open_all" /\ ~gmCalls[2].ended

\* C37: the count check_rules returns is the number of GroupManager calls it
\* made, whatever target_type its rules hold.
C37_CountIsCalls ==
    (pc = "returned" /\ call.op = "check_rules") => result = <<Len(gmCalls)>>

\* C37 witness: check_rules(08:00) over a room rule and a rule of target_type
\* "device" has returned 2 after one GroupManager call.
C37_Witness ==
    /\ pc = "returned" /\ call.op = "check_rules"
    /\ Len(rules) = 2
    /\ rules[1].target_type = "room" /\ rules[2].target_type = "device"
    /\ result = <<2>>
    /\ Len(gmCalls) = 1 /\ gmCalls[1].op = "set_room_angle"

\* The executions of the rule at position i recorded for minute m.
RunsOf(i, m) ==
    {k \in DOMAIN fired.runs : fired.runs[k].pos = i /\ fired.runs[k].minute = m}

\* C35: while the run loop is running, an enabled rule is executed at most
\* once for its minute and for no other minute, and once its minute is over
\* (the loop having ticked in or before that minute) it has been executed
\* for it.
C35_OncePerMinute ==
    (running /\ loop \in {"top", "sleep"} /\ fired.ticks # << >>) =>
        \A i \in DOMAIN rules :
            LET m == minute_of(rules[i].time)
            IN /\ Cardinality(RunsOf(i, m)) <= 1
               /\ \A k \in DOMAIN fired.runs :
                    fired.runs[k].pos = i => fired.runs[k].minute = m
               /\ (rules[i].enabled /\ fired.ticks[1] \div 60 <= m
                        /\ wall \div 60 > m)
                    => Cardinality(RunsOf(i, m)) = 1

\* C35 witness: run() was started at 08:00:50; the 08:00 rule was executed and
\* took 20 seconds, the sleep ended at 08:02:10, and the 08:01 rule has not
\* been executed.
C35_Witness ==
    /\ running /\ loop = "top"
    /\ fired.ticks = <<50>> /\ wall = 130
    /\ Len(rules) = 2
    /\ rules[1].name = "morning" /\ rules[2].name = "close_floor"
    /\ Len(fired.runs) = 1 /\ fired.runs[1].rule = "morning"

\* The ids of the devices in a list.
IdsIn(devs) == {devs[k].eui64 : k \in DOMAIN devs}

\* C38: of two discover() runs side by side, at most one returns an id that
\* was not stored before both began.
C38_NewByOne ==
    (pc = "returned" /\ call.op = "discover_twice") =>
        \A id \in Ids \ before : ~(id \in IdsIn(result[1]) /\ id \in IdsIn(result[2]))

\* C38 witness: d1 was not stored; both runs probed its address and both
\* returned it as new, the registry holding one record of it.
C38_Witness ==
    /\ pc = "returned" /\ call.op = "discover_twice"
    /\ "d1" \notin before
    /\ "d1" \in IdsIn(result[1]) /\ "d1" \in IdsIn(result[2])
    /\ "d1" \in DOMAIN reg

\* A step of poll_all or discover.
ScanStep == pc \in {"poll", "discover"}

\* The stored records that carry the labels update_assignment wrote last.
AsAssigned ==
    {id \in DOMAIN assigned \cap DOMAIN reg :
        <<reg[id].room, reg[id].floor>> = assigned[id]}

\* C39 as stated: no step of poll_all or discover changes the room or floor
\* update_assignment wrote, whatever labels the device's own config reports.
C39_AssignmentKept ==
    [][ScanStep =>
        \A id \in AsAssigned :
            <<reg'[id].room, reg'[id].floor>> = assigned[id]]_vars

\* C39 amended: a step of poll_all or discover leaves the assigned room
\* (floor) of a record as it is whenever the device's own config reports an
\* empty room (floor) or the assigned one; it changes it only to the non-empty
\* label the device reports.
C39_KeptUnlessReported ==
    [][ScanStep =>
        \A id \in AsAssigned :
            /\ reg'[id].room \in {assigned[id][1], vents[id].room}
            /\ reg'[id].floor \in {assigned[id][2], vents[id].floor}
            /\ vents[id].room = "" => reg'[id].room = assigned[id][1]
            /\ vents[id].floor = "" => reg'[id].floor = assigned[id][2]]_vars

\* C39 witness: d2, whose own config holds no labels, was assigned to the
\* kitchen on floor 1 while its set_config failed; a poll has just stored its
\* probe and the record is still in the kitchen on floor 1.
C39_Witness ==
    /\ pc \in {"poll", "returned"} /\ call.op = "poll_all"
    /\ last.op = "upsert" /\ last.device.eui64 = "d2"
    /\ last.device.room = "" /\ vents["d2"].room = ""
    /\ "d2" \in DOMAIN assigned /\ assigned["d2"] = <<"kitchen", "1">>
    /\ reg["d2"].room = "kitchen" /\ reg["d2"].floor = "1"

\* C40: a step of poll_all changes no record but the one it polled and leaves
\* the stored ids as they were, whatever id the device at the stored address
\* reports; a step of a group set leaves the stored ids and every record's
\* room, floor, name and address as they were.
C40_IdsKept ==
    [][/\ pc = "poll" =>
            /\ DOMAIN reg' = DOMAIN reg
            /\ \A x \in DOMAIN reg \ {Head(queue).eui64} : reg'[x] = reg[x]
       /\ pc = "group" =>
            /\ DOMAIN reg' = DOMAIN reg
            /\ \A x \in DOMAIN reg :
                /\ reg'[x].room = reg[x].room
                /\ reg'[x].floor = reg[x].floor
                /\ reg'[x].name = reg[x].name
                /\ reg'[x].ipv6_address = reg[x].ipv6_address]_vars

\* C40 witness: the registry held d1 alone, at the address d2 answers at; the
\* poll of d1 has just stored a record of d2, d1's own being as it was.
C40_Witness ==
    /\ call.op = "poll_all"
    /\ before = {"d1"}
    /\ last.op = "upsert" /\ last.device.eui64 = "d2"
    /\ DOMAIN reg = {"d1", "d2"}
    /\ reg["d1"].ipv6_address = AddrOf("d2") /\ reg["d1"].angle = 90
    /\ reg["d2"].angle = 180

====
